---- MODULE Spec2Model ----
(***************************************************************************)
(* Push-to-talk voice dictation: the recording controller                  *)
(* (voice_ptt.py, VoiceTypingApp), the recorder (audio_recorder.py,        *)
(* AudioRecorder), the worker routine _record_and_transcribe, the          *)
(* clipboard-mediated text injection (text_input.py, ai-fix.py) and the    *)
(* stop transition's join timeout.                                         *)
(*                                                                         *)
(* Spec         the controller, its workers and the capture callbacks,     *)
(*              interleaved at the granularity of reads and writes of      *)
(*              the shared recorder attributes.                            *)
(* LiveSpec     Spec with the fairness the thread scheduler gives.         *)
(* SpecTimeout  the join timeout computed by _stop_recording_thread.       *)
(* SpecClip     type_text, get_highlighted_text and replace_selection      *)
(*              run one at a time against the clipboard.                   *)
(* SpecNorm     the normalization of a transcript (transcription.py).      *)
(* SpecDevice   get_audio_device_info and the stream start_recording       *)
(*              constructs from its answer.                                *)
(* SpecMain     main of voice_ptt.py up to the exit of the process.        *)
(* SpecLock     two AI Fix processes at the instance lock.                 *)
(* SpecFormat   format_text against one answer of the backend.             *)
(* SpecPlatform should_skip_device_selection and list_and_select_device    *)
(*              on one host.                                               *)
(* SpecUnmute   _unmute_usb_microphone for one press of the record key.    *)
(* SpecKeys     the hotkey listener: _on_press for the keys pressed.       *)
(* SpecFix      ai-fix.py: handle_fix for the Alt+G presses of a run.      *)
(* SpecIndicator the application with the recording indicator installed,  *)
(*              its toggles coming from the one listener thread.           *)
(***************************************************************************)
EXTENDS Integers, Sequences, FiniteSets, TLC

\* ------------------------------------------------------------------ bounds
\* worker threads a run may create (one per start toggle)
MaxWorkers == 2
\* chunks the buffer may hold
MaxChunks == 1

Workers == 1..MaxWorkers
\* contexts that may call toggle_recording concurrently
Handlers == {"h1", "h2"}
\* Python's None where a worker or a stream is expected
None == 0
\* the lock is held by nobody
Unlocked == "unlocked"

VARIABLES
    \* AudioRecorder
    is_recording,       \* self.is_recording
    should_stop,        \* self.should_stop
    audio_data,         \* self.audio_data: chunks, each named <<stream, rank>>
    stream,             \* self.stream: the InputStream last assigned (None: no attribute yet)
    streams,            \* every InputStream ever constructed: "none", "open", "active", "closed"
    \* VoiceTypingApp
    recording_thread,   \* self.recording_thread: a worker or None
    thread_lock,        \* holder of self._thread_lock, or Unlocked
    hpc,                \* position of each toggle_recording call
    hret,               \* where _force_cleanup_thread returns to
    timed_out,          \* the workers whose join timed out (the warning of line 90)
    \* _record_and_transcribe, one per Thread
    wpc,                \* position of each worker
    files,              \* recording_*.wav files on disk, named by the worker that wrote them
    injected            \* workers whose text reached the foreground application

    \* the recording indicator, and the history of the chunk buffer
VARIABLES
    indicator_script,   \* the indicator script of line 17: "missing" or "present"
    process,            \* RecordingIndicatorManager.process: the indicator stored, or None
    indicators,         \* every indicator process started: "none", "running", "ended"
    delivered,          \* how many chunks the callback of each stream has appended
    taken               \* save_audio has returned the buffer since line 36 last reset it

    \* _stop_recording_thread's timeout (SpecTimeout), times in whole seconds
VARIABLES
    clock,                  \* time.time()
    recording_start_time,   \* self._recording_start_time, or None
    stopped_at,             \* time.time() as read by the last stop, or None
    dynamic_timeout         \* the timeout the last stop computed, or None

    \* the clipboard operations (SpecClip)
VARIABLES
    clipboard,          \* what the system clipboard holds
    op,                 \* the operation called and its text argument
    kpc,                \* position inside the operation
    original_clipboard, \* the operation's local snapshot
    clip_before,        \* the clipboard content when the operation was called
    effects,            \* what the operation has done so far: "read", "write", "keys", "format"
    restore_raised      \* the restoring write of the except clause raised

    \* transcript normalization (SpecNorm)
VARIABLES
    raw,                \* the text the backend returned, a sequence of characters
    transcript,         \* the text as it is now
    norm_count,         \* how many times the normalization was applied
    once                \* the text after the first application

    \* device selection (SpecDevice)
VARIABLES
    native_rate,        \* int(device_info['default_samplerate'])
    supported,          \* the <<rate, channels>> check_input_settings accepts
    query_ok,           \* sd.query_devices() answers
    dpc,                \* position inside get_audio_device_info / start_recording
    selected_rate,      \* the first candidate rate
    fallback_idx,       \* position of the loop over PREFERRED_SAMPLE_RATES
    checks,             \* the <<rate, channels>> validated so far, in order
    returned_config,    \* what get_audio_device_info returned
    opened              \* the configuration the stream was constructed with

    \* startup (SpecMain)
VARIABLES
    args,               \* the command line: list_devices, device, no_device_select, local
    env,                \* the platform, the prompt, the credentials, the local model
    mpc,                \* position inside main
    exit_code,          \* <<>> while the process runs, else <<code>>
    default_device,     \* sd.default.device[0]: <<>> (the system's) or <<index>>
    set_result,         \* what set_device returned, or "uncalled"
    selection,          \* how the interactive selection ended, or "none"
    app,                \* VoiceTypingApp: "none", "created" or "failed"
    startup_error       \* the startup error met, or "none"

    \* the AI Fix instance lock (SpecLock)
VARIABLES
    lock_file,          \* /tmp/ai-fix.lock: <<>> (no file) or <<its content>>
    lpc,                \* position of each instance inside acquire / main
    existing_pid        \* the pid each instance read from the file

    \* the formatting backend (SpecFormat)
VARIABLES
    response,           \* what requests.post meets: connects, status_code, lines
    fpc,                \* position inside format_text
    line_idx,           \* the next line of response.iter_lines()
    full_response,      \* the content accumulated so far
    format_result       \* what format_text returned

    \* platform detection (SpecPlatform)
VARIABLES
    host,               \* platform.system().lower(), /proc/version, the WSL variables, the prompt
    ppc,                \* position inside the function called
    os_type,            \* what detect_operating_system returned
    wsl_detected,       \* what is_wsl returned
    skip_result,        \* what should_skip_device_selection returned: <<>> or <<value>>
    select_return,      \* how list_and_select_device ended: <<>> or <<outcome>>
    prompted            \* input() was called

    \* the microphone unmute of a key press (SpecUnmute)
VARIABLES
    listing,            \* how `which pactl` and the listing of the sources ended
    sources,            \* the sources of the listing, in its order
    upc,                \* position inside _unmute_usb_microphone
    source_to_unmute,   \* index of the source selected, or None
    attempt,            \* the loop variable of the retry loop
    unmute_commands,    \* the `pactl set-source-mute` commands issued, by target
    verdicts            \* how each attempt ended, in order

    \* the hotkey listener (SpecKeys)
VARIABLES
    listener,           \* self.listener: "none", "running" or "stopped"
    key,                \* the key _on_press is handling, or "none"
    epc,                \* position inside _on_press
    presses,            \* Right Ctrl presses handed to _on_press
    toggles,            \* calls of on_record_toggle
    handled,            \* the keys whose _on_press has returned
    cleanup_calls       \* calls of VoiceTypingApp.cleanup

    \* the AI-fix application (SpecFix)
VARIABLES
    processing,         \* AIFix.processing
    gpc,                \* position of the listener thread inside handle_fix
    path,               \* the way the running handle_fix is leaving
    triggers,           \* Alt+G presses handed to handle_fix
    in_flight,          \* cycles that passed the test of line 310 and have not ended
    copies,             \* Ctrl+C keystrokes sent by get_highlighted_text
    pastes,             \* Ctrl+V keystrokes sent by replace_selection
    returns             \* the ways handle_fix has returned so far

tvars == <<clock, recording_start_time, stopped_at, dynamic_timeout>>
kvars == <<clipboard, op, kpc, original_clipboard, clip_before, effects,
          restore_raised>>
svars == <<raw, transcript, norm_count, once>>
dvars == <<native_rate, supported, query_ok, dpc, selected_rate, fallback_idx,
          checks, returned_config, opened>>
mvars == <<args, env, mpc, exit_code, default_device, set_result, selection,
          app, startup_error>>
lvars == <<lock_file, lpc, existing_pid>>
fvars == <<response, fpc, line_idx, full_response, format_result>>
pvars == <<host, ppc, os_type, wsl_detected, skip_result, select_return,
          prompted>>
uvars == <<listing, sources, upc, source_to_unmute, attempt, unmute_commands,
          verdicts>>
evars == <<listener, key, epc, presses, toggles, handled, cleanup_calls>>
gvars == <<processing, gpc, path, triggers, in_flight, copies, pastes, returns>>
restvars == <<svars, dvars, mvars, lvars, fvars, pvars, uvars, evars, gvars>>
bvars == <<delivered, taken>>
ivars == <<indicator_script, process, indicators>>
yvars == <<tvars, kvars, restvars>>
xvars == <<yvars, bvars, ivars>>
rvars == <<is_recording, should_stop, audio_data, stream, streams>>
cvars == <<recording_thread, thread_lock, hpc, hret, timed_out>>
wvars == <<wpc, files, injected>>
notkvars == <<rvars, cvars, wvars, bvars, ivars, tvars, restvars>>
nottvars == <<rvars, cvars, wvars, bvars, ivars, kvars, restvars>>
appvars == <<rvars, cvars, wvars, bvars, ivars, tvars, kvars>>
notsvars == <<appvars, dvars, mvars, lvars, fvars, pvars, uvars, evars, gvars>>
notdvars == <<appvars, svars, mvars, lvars, fvars, pvars, uvars, evars, gvars>>
notmvars == <<appvars, svars, dvars, lvars, fvars, pvars, uvars, evars, gvars>>
notlvars == <<appvars, svars, dvars, mvars, fvars, pvars, uvars, evars, gvars>>
notfvars == <<appvars, svars, dvars, mvars, lvars, pvars, uvars, evars, gvars>>
notpvars == <<appvars, svars, dvars, mvars, lvars, fvars, uvars, evars, gvars>>
notuvars == <<appvars, svars, dvars, mvars, lvars, fvars, pvars, evars, gvars>>
notevars == <<appvars, svars, dvars, mvars, lvars, fvars, pvars, uvars, gvars>>
notgvars == <<appvars, svars, dvars, mvars, lvars, fvars, pvars, uvars, evars>>
vars == <<rvars, cvars, wvars, bvars, ivars, tvars, kvars, restvars>>

Alive(w) == wpc[w] \notin {"unborn", "done"}

\* ---------------------------------------------------------------- recorder
\* The timeout and clipboard variables while the controller runs
IdleTimeout ==
    /\ clock = 1
    /\ recording_start_time = None
    /\ stopped_at = None
    /\ dynamic_timeout = None

IdleClip ==
    /\ clipboard = ""
    /\ op = <<"none", "">>
    /\ kpc = "idle"
    /\ original_clipboard = ""
    /\ clip_before = ""
    /\ effects = {}
    /\ restore_raised = FALSE

IdleNorm ==
    /\ raw = <<>>
    /\ transcript = <<>>
    /\ norm_count = 0
    /\ once = <<>>

IdleDevice ==
    /\ native_rate = None
    /\ supported = {}
    /\ query_ok = TRUE
    /\ dpc = "idle"
    /\ selected_rate = None
    /\ fallback_idx = None
    /\ checks = <<>>
    /\ returned_config = <<>>
    /\ opened = <<>>

IdleMain ==
    /\ args = [list_devices |-> FALSE, device |-> <<>>,
               no_device_select |-> TRUE, local |-> FALSE]
    /\ env = [should_skip |-> FALSE, prompt |-> "default", has_key |-> TRUE,
              local_init_ok |-> TRUE]
    /\ mpc = "run"
    /\ exit_code = <<>>
    /\ default_device = <<>>
    /\ set_result = "uncalled"
    /\ selection = "none"
    /\ app = "created"
    /\ startup_error = "none"

IdleLock ==
    /\ lock_file = <<>>
    /\ lpc = [p \in {"p1", "p2"} |-> "exited"]
    /\ existing_pid = [p \in {"p1", "p2"} |-> ""]

IdleFormat ==
    /\ response = [connects |-> TRUE, status_code |-> 200, lines |-> <<>>]
    /\ fpc = "idle"
    /\ line_idx = 1
    /\ full_response = <<>>
    /\ format_result = <<>>

IdlePlatform ==
    /\ host = [system |-> "linux", proc_version |-> "plain",
               wsl_distro_name |-> FALSE, wslenv |-> FALSE,
               prompt |-> "default", called |-> "should_skip_device_selection"]
    /\ ppc = "returned"
    /\ os_type = "linux"
    /\ wsl_detected = FALSE
    /\ skip_result = <<FALSE>>
    /\ select_return = <<>>
    /\ prompted = FALSE

IdleUnmute ==
    /\ listing = "no_pactl"
    /\ sources = <<>>
    /\ upc = "returned"
    /\ source_to_unmute = None
    /\ attempt = 0
    /\ unmute_commands = <<>>
    /\ verdicts = <<>>

\* The variables of SpecPlatform and SpecUnmute while neither runs
IdleLater == IdlePlatform /\ IdleUnmute

IdleKeys ==
    /\ listener = "none"
    /\ key = "none"
    /\ epc = "idle"
    /\ presses = 0
    /\ toggles = 0
    /\ handled = {}
    /\ cleanup_calls = 0

IdleFix ==
    /\ processing = FALSE
    /\ gpc = "idle"
    /\ path = "none"
    /\ triggers = 0
    /\ in_flight = 0
    /\ copies = 0
    /\ pastes = 0
    /\ returns = {}

\* The variables of the specifications added last
IdleLast == IdleKeys /\ IdleFix

\* The variables of the other specifications while one of them runs
IdleRest ==
    /\ IdleNorm /\ IdleDevice /\ IdleMain /\ IdleLock /\ IdleFormat
    /\ IdleLater /\ IdleLast

\* AudioRecorder.__init__ / VoiceTypingApp.__init__
InitRecorder ==
    /\ is_recording = FALSE
    /\ should_stop = FALSE
    /\ audio_data = <<>>
    /\ stream = None
    /\ streams = [w \in Workers |-> "none"]
    /\ recording_thread = None
    /\ thread_lock = Unlocked
    /\ hpc = [h \in Handlers |-> "idle"]
    /\ hret = [h \in Handlers |-> "idle"]
    /\ timed_out = {}
    /\ wpc = [w \in Workers |-> "unborn"]
    /\ files = {}
    /\ injected = {}
    /\ delivered = [s \in Workers |-> 0]
    /\ taken = FALSE
    /\ process = None
    /\ indicators = [w \in Workers |-> "none"]

\* an installation without the indicator script: show() and hide() change
\* nothing (recording_indicator.py lines 26, 40-41 and 49). The indicator
\* never acts on the recorder, the threads or the lock, so the
\* specifications that are not about it run on such an installation.
InitApp == InitRecorder /\ indicator_script = "missing"

Init == InitApp /\ IdleTimeout /\ IdleClip /\ IdleRest

\* stream.stop(); stream.close() on the stream s (errors ignored by sounddevice's defaults)
CloseStream(s) ==
    IF s = None THEN streams
    ELSE [streams EXCEPT ![s] = IF @ \in {"open", "active"} THEN "closed" ELSE @]

\* ------------------------------------------------------------- controller
\* toggle_recording, lines 47-48: `with self._thread_lock:` entered and
\* `if not self.recorder.is_recording:` read. A start toggle is taken
\* only while the run may still create a worker.
ToggleEnter(h) ==
    /\ hpc[h] = "idle"
    /\ thread_lock = Unlocked
    /\ is_recording \/ \E w \in Workers : wpc[w] = "unborn"
    /\ thread_lock' = h
    /\ hpc' = [hpc EXCEPT ![h] = IF is_recording THEN "sp_thread" ELSE "t_alive"]
    /\ UNCHANGED <<xvars, timed_out, rvars, wvars, recording_thread, hret>>

\* line 50: `if self.recording_thread and self.recording_thread.is_alive():`
ToggleAlive(h) ==
    /\ hpc[h] = "t_alive"
    /\ IF recording_thread # None /\ Alive(recording_thread)
       THEN /\ hpc' = [hpc EXCEPT ![h] = "fc_check"]
            /\ hret' = [hret EXCEPT ![h] = "t_spawn"]
       ELSE /\ hpc' = [hpc EXCEPT ![h] = "t_spawn"]
            /\ UNCHANGED hret
    /\ UNCHANGED <<xvars, timed_out, rvars, wvars, recording_thread, thread_lock>>

\* lines 55-63: a new Thread is created, stored and started
ToggleSpawn(h) ==
    /\ hpc[h] = "t_spawn"
    /\ \E w \in Workers :
        /\ wpc[w] = "unborn"
        /\ \A v \in Workers : v < w => wpc[v] # "unborn"
        /\ recording_thread' = w
        /\ wpc' = [wpc EXCEPT ![w] = "sr_check"]
    /\ hpc' = [hpc EXCEPT ![h] = "t_show"]
    /\ UNCHANGED <<xvars, timed_out, rvars, files, injected, thread_lock, hret>>

\* RecordingIndicatorManager.show, recording_indicator.py lines 19-45: the
\* indicator script is missing and nothing changes; or Popen starts a
\* process, named by the worker of this toggle, that is still running at
\* the poll of line 35 and is stored; or the process has ended by then, or
\* Popen raised, and None is stored. No earlier process is looked at.
Show(w) ==
    /\ IF indicator_script = "missing"
       THEN UNCHANGED <<process, indicators>>
       ELSE \/ /\ process' = w
               /\ indicators' = [indicators EXCEPT ![w] = "running"]
            \/ /\ process' = None
               /\ indicators' = [indicators EXCEPT ![w] = "ended"]
    /\ UNCHANGED indicator_script

\* RecordingIndicatorManager.hide, lines 47-65: the stored process, if
\* any, is terminated (killed after a second) and forgotten
Hide ==
    IF process = None
    THEN UNCHANGED ivars
    ELSE /\ indicators' = [indicators EXCEPT ![process] = "ended"]
         /\ process' = None
         /\ UNCHANGED indicator_script

\* line 66 and the end of the with block: indicator.show(), lock released
ToggleShow(h) ==
    /\ hpc[h] = "t_show"
    /\ Show(recording_thread)
    /\ hpc' = [hpc EXCEPT ![h] = "idle"]
    /\ thread_lock' = Unlocked
    /\ UNCHANGED <<yvars, bvars, timed_out, rvars, wvars, recording_thread, hret>>

\* _stop_recording_thread, lines 74-81: nothing without a thread handle,
\* else should_stop is set
StopSignal(h) ==
    /\ hpc[h] = "sp_thread"
    /\ IF recording_thread = None
       THEN /\ hpc' = [hpc EXCEPT ![h] = "t_hide"]
            /\ UNCHANGED should_stop
       ELSE /\ hpc' = [hpc EXCEPT ![h] = "sp_join"]
            /\ should_stop' = TRUE
    /\ UNCHANGED <<xvars, timed_out, is_recording, audio_data, stream, streams, wvars,
                   recording_thread, thread_lock, hret>>

\* A worker is inside a call that may take longer than any join timeout
\* (device query, stream open/start/stop, file write, transcription, the
\* formatter and the settle delays of type_text), or is polling with the
\* loop condition true.
Blocked(w) ==
    \/ wpc[w] \in {"sr_clear", "sr_open", "sr_startstream", "st_close",
                   "sv_concat", "tr", "type"}
    \/ wpc[w] \in {"loop", "loop2"} /\ is_recording /\ ~should_stop

\* a join without a timeout: it returns only when the thread has finished
JoinNeverTimesOut(h) == FALSE

\* line 86: join(timeout=dynamic_timeout) returns with the thread still
\* alive: the timeout elapsed
JoinTimesOut(h) ==
    /\ Alive(recording_thread)
    /\ Blocked(recording_thread)

\* lines 86-95: the join returns; a finished thread's handle is dropped, a
\* live one is force-cleaned
StopJoin(h) ==
    /\ hpc[h] = "sp_join"
    /\ \/ /\ ~Alive(recording_thread)
          /\ recording_thread' = None
          /\ hpc' = [hpc EXCEPT ![h] = "t_hide"]
          /\ UNCHANGED <<hret, timed_out>>
       \/ /\ JoinTimesOut(h)
          /\ hpc' = [hpc EXCEPT ![h] = "fc_check"]
          /\ hret' = [hret EXCEPT ![h] = "t_hide"]
          /\ timed_out' = timed_out \cup {recording_thread}
          /\ UNCHANGED recording_thread
    /\ UNCHANGED <<xvars, rvars, wvars, thread_lock>>

\* line 70 and the end of the with block: indicator.hide(), lock released
ToggleHide(h) ==
    /\ hpc[h] = "t_hide"
    /\ Hide
    /\ hpc' = [hpc EXCEPT ![h] = "idle"]
    /\ thread_lock' = Unlocked
    /\ UNCHANGED <<yvars, bvars, timed_out, rvars, wvars, recording_thread, hret>>

\* _force_cleanup_thread, lines 99-106
ForceCheck(h) ==
    /\ hpc[h] = "fc_check"
    /\ hpc' = [hpc EXCEPT ![h] =
                 IF recording_thread = None THEN hret[h]
                 ELSE IF is_recording THEN "fc_setrec" ELSE "fc_discard"]
    /\ hret' = [hret EXCEPT ![h] = IF recording_thread = None THEN "idle" ELSE @]
    /\ UNCHANGED <<xvars, timed_out, rvars, wvars, recording_thread, thread_lock>>

\* line 107
ForceSetRec(h) ==
    /\ hpc[h] = "fc_setrec"
    /\ is_recording' = FALSE
    /\ hpc' = [hpc EXCEPT ![h] = "fc_setstop"]
    /\ UNCHANGED <<xvars, timed_out, should_stop, audio_data, stream, streams, wvars,
                   recording_thread, thread_lock, hret>>

\* line 108
ForceSetStop(h) ==
    /\ hpc[h] = "fc_setstop"
    /\ should_stop' = TRUE
    /\ hpc' = [hpc EXCEPT ![h] = "fc_close"]
    /\ UNCHANGED <<xvars, timed_out, is_recording, audio_data, stream, streams, wvars,
                   recording_thread, thread_lock, hret>>

\* lines 112-119
ForceClose(h) ==
    /\ hpc[h] = "fc_close"
    /\ streams' = CloseStream(stream)
    /\ hpc' = [hpc EXCEPT ![h] = "fc_discard"]
    /\ UNCHANGED <<xvars, timed_out, is_recording, should_stop, audio_data, stream, wvars,
                   recording_thread, thread_lock, hret>>

\* lines 122-126
ForceDiscard(h) ==
    /\ hpc[h] = "fc_discard"
    /\ recording_thread' = None
    /\ hpc' = [hpc EXCEPT ![h] = hret[h]]
    /\ hret' = [hret EXCEPT ![h] = "idle"]
    /\ UNCHANGED <<xvars, timed_out, rvars, wvars, thread_lock>>

HandlerStep(h) ==
    \/ ToggleEnter(h) \/ ToggleAlive(h) \/ ToggleSpawn(h)
    \/ ToggleShow(h) \/ StopSignal(h) \/ StopJoin(h) \/ ToggleHide(h)
    \/ ForceCheck(h) \/ ForceSetRec(h) \/ ForceSetStop(h) \/ ForceClose(h)
    \/ ForceDiscard(h)

\* ------------------------------------------------------------------ worker
\* The position a worker reaches when a statement inside the try block of
\* _record_and_transcribe raises: the except clause of line 174
Raised == "exc"

\* start_recording, lines 27-28: `if self.is_recording: return`
SrCheck(w) ==
    /\ wpc[w] = "sr_check"
    /\ wpc' = [wpc EXCEPT ![w] = IF is_recording THEN "loop" ELSE "sr_clear"]
    /\ UNCHANGED <<xvars, rvars, cvars, files, injected>>

\* lines 33-36: get_audio_device_info() (it returns a fallback instead of
\* raising), then `self.audio_data = []`
SrClear(w) ==
    /\ wpc[w] = "sr_clear"
    /\ audio_data' = <<>>
    /\ taken' = FALSE
    /\ wpc' = [wpc EXCEPT ![w] = "sr_setrec"]
    /\ UNCHANGED <<yvars, ivars, delivered, is_recording, should_stop, stream, streams, cvars,
                   files, injected>>

\* line 37
SrSetRec(w) ==
    /\ wpc[w] = "sr_setrec"
    /\ is_recording' = TRUE
    /\ wpc' = [wpc EXCEPT ![w] = "sr_resetstop"]
    /\ UNCHANGED <<xvars, should_stop, audio_data, stream, streams, cvars,
                   files, injected>>

\* line 38
SrResetStop(w) ==
    /\ wpc[w] = "sr_resetstop"
    /\ should_stop' = FALSE
    /\ wpc' = [wpc EXCEPT ![w] = "sr_open"]
    /\ UNCHANGED <<xvars, is_recording, audio_data, stream, streams, cvars,
                   files, injected>>

\* lines 55-62: sd.InputStream(...) opens a stream and self.stream is
\* bound to it, or the constructor raises and nothing is opened
SrOpen(w) ==
    /\ wpc[w] = "sr_open"
    /\ \/ /\ streams' = [streams EXCEPT ![w] = "open"]
          /\ stream' = w
          /\ wpc' = [wpc EXCEPT ![w] = "sr_startstream"]
       \/ /\ wpc' = [wpc EXCEPT ![w] = "sr_fail"]
          /\ UNCHANGED <<stream, streams>>
    /\ UNCHANGED <<xvars, is_recording, should_stop, audio_data, cvars,
                   files, injected>>

\* line 63: self.stream.start() acts on whatever self.stream is bound to
\* now; a stopped stream becomes active or fails to start, an active one
\* is left alone, a closed one raises
SrStartStream(w) ==
    /\ wpc[w] = "sr_startstream"
    /\ \/ /\ streams[stream] \in {"open", "active"}
          /\ streams' = [streams EXCEPT ![stream] = "active"]
          /\ wpc' = [wpc EXCEPT ![w] = "loop"]
       \/ /\ streams[stream] \in {"open", "closed"}
          /\ wpc' = [wpc EXCEPT ![w] = "sr_fail"]
          /\ UNCHANGED streams
    /\ UNCHANGED <<xvars, is_recording, should_stop, audio_data, stream, cvars,
                   files, injected>>

\* lines 66-69: `self.is_recording = False; raise`
SrFail(w) ==
    /\ wpc[w] = "sr_fail"
    /\ is_recording' = FALSE
    /\ wpc' = [wpc EXCEPT ![w] = Raised]
    /\ UNCHANGED <<xvars, should_stop, audio_data, stream, streams, cvars,
                   files, injected>>

\* _record_and_transcribe, line 145: `while self.recorder.is_recording`
Loop(w) ==
    /\ wpc[w] = "loop"
    /\ wpc' = [wpc EXCEPT ![w] = IF is_recording THEN "loop2" ELSE "st_check"]
    /\ UNCHANGED <<xvars, rvars, cvars, files, injected>>

\* lines 145-146: `and not self.recorder.should_stop`, then the 0.1 s wait
Loop2(w) ==
    /\ wpc[w] = "loop2"
    /\ wpc' = [wpc EXCEPT ![w] = IF should_stop THEN "st_check" ELSE "loop"]
    /\ UNCHANGED <<xvars, rvars, cvars, files, injected>>

\* stop_recording, line 73: `if not self.is_recording`
StCheck(w) ==
    /\ wpc[w] = "st_check"
    /\ wpc' = [wpc EXCEPT ![w] = IF is_recording THEN "st_setrec" ELSE "st_check2"]
    /\ UNCHANGED <<xvars, rvars, cvars, files, injected>>

\* a stop_recording without the early return
StopNoEarlyReturn == FALSE

\* The early return of stop_recording, lines 73-75, taken with the recorder
\* not recording: None is returned when the buffer is empty
StopEarlyReturn == audio_data = <<>>

\* lines 73-75 `and not self.audio_data: return None`; the worker then
\* goes to its finally clause with audio_file None
StCheck2(w) ==
    /\ wpc[w] = "st_check2"
    /\ wpc' = [wpc EXCEPT ![w] = IF StopEarlyReturn THEN "fin1" ELSE "st_setrec"]
    /\ UNCHANGED <<xvars, rvars, cvars, files, injected>>

\* line 77
StSetRec(w) ==
    /\ wpc[w] = "st_setrec"
    /\ is_recording' = FALSE
    /\ wpc' = [wpc EXCEPT ![w] = "st_setstop"]
    /\ UNCHANGED <<xvars, should_stop, audio_data, stream, streams, cvars,
                   files, injected>>

\* line 78
StSetStop(w) ==
    /\ wpc[w] = "st_setstop"
    /\ should_stop' = TRUE
    /\ wpc' = [wpc EXCEPT ![w] = "st_close"]
    /\ UNCHANGED <<xvars, is_recording, audio_data, stream, streams, cvars,
                   files, injected>>

\* lines 82-86: `if hasattr(self, 'stream')`: self.stream stopped and closed
StClose(w) ==
    /\ wpc[w] = "st_close"
    /\ streams' = CloseStream(stream)
    /\ wpc' = [wpc EXCEPT ![w] = "st_save"]
    /\ UNCHANGED <<xvars, is_recording, should_stop, audio_data, stream, cvars,
                   files, injected>>

\* lines 92-97: `if self.audio_data:` else None is returned
StSave(w) ==
    /\ wpc[w] = "st_save"
    /\ wpc' = [wpc EXCEPT ![w] = IF audio_data # <<>> THEN "sv_concat" ELSE "fin1"]
    /\ UNCHANGED <<xvars, rvars, cvars, files, injected>>

\* save_audio, lines 101-124: None for an empty buffer; else the chunks are
\* concatenated and written, which yields the file or raises (makedirs,
\* concatenate, wavfile.write)
SvConcat(w) ==
    /\ wpc[w] = "sv_concat"
    /\ \/ /\ audio_data = <<>>
          /\ wpc' = [wpc EXCEPT ![w] = "fin1"]
          /\ UNCHANGED <<files, taken>>
       \/ /\ audio_data # <<>>
          /\ files' = files \cup {w}
          /\ taken' = TRUE
          /\ wpc' = [wpc EXCEPT ![w] = "tr"]
       \/ /\ audio_data # <<>>
          /\ wpc' = [wpc EXCEPT ![w] = Raised]
          /\ UNCHANGED <<files, taken>>
    /\ UNCHANGED <<yvars, ivars, delivered, rvars, cvars, injected>>

\* lines 159-166: transcribe_audio returns text, or None / '' (backend
\* error, missing file, empty result: every exception is caught inside)
Tr(w) ==
    /\ wpc[w] = "tr"
    /\ \/ /\ w \in files
          /\ wpc' = [wpc EXCEPT ![w] = "type"]
       \/ wpc' = [wpc EXCEPT ![w] = "cleanup"]
    /\ UNCHANGED <<xvars, rvars, cvars, files, injected>>

\* line 164: type_text pastes the text or not, and returns or raises (the
\* snapshot of line 50 and the restoring write of line 78 are outside any
\* handler)
Type(w) ==
    /\ wpc[w] = "type"
    /\ \E pasted \in BOOLEAN, raises \in BOOLEAN :
        /\ injected' = IF pasted THEN injected \cup {w} ELSE injected
        /\ wpc' = [wpc EXCEPT ![w] = IF raises THEN Raised ELSE "cleanup"]
    /\ UNCHANGED <<xvars, rvars, cvars, files>>

\* line 170: cleanup_file removes the file
Cleanup(w) ==
    /\ wpc[w] = "cleanup"
    /\ files' = files \ {w}
    /\ wpc' = [wpc EXCEPT ![w] = "fin1"]
    /\ UNCHANGED <<xvars, rvars, cvars, injected>>

\* lines 174-179: the except clause
Exc(w) ==
    /\ wpc[w] = "exc"
    /\ is_recording' = FALSE
    /\ wpc' = [wpc EXCEPT ![w] = "fin1"]
    /\ UNCHANGED <<xvars, should_stop, audio_data, stream, streams, cvars,
                   files, injected>>

\* line 182
Fin1(w) ==
    /\ wpc[w] = "fin1"
    /\ is_recording' = FALSE
    /\ wpc' = [wpc EXCEPT ![w] = "fin2"]
    /\ UNCHANGED <<xvars, should_stop, audio_data, stream, streams, cvars,
                   files, injected>>

\* line 183, after which the thread ends
Fin2(w) ==
    /\ wpc[w] = "fin2"
    /\ should_stop' = TRUE
    /\ wpc' = [wpc EXCEPT ![w] = "done"]
    /\ UNCHANGED <<xvars, is_recording, audio_data, stream, streams, cvars,
                   files, injected>>

WorkerStep(w) ==
    \/ SrCheck(w) \/ SrClear(w) \/ SrSetRec(w) \/ SrResetStop(w) \/ SrOpen(w)
    \/ SrStartStream(w) \/ SrFail(w) \/ Loop(w) \/ Loop2(w)
    \/ StCheck(w) \/ StCheck2(w) \/ StSetRec(w) \/ StSetStop(w) \/ StClose(w)
    \/ StSave(w) \/ SvConcat(w) \/ Tr(w) \/ Type(w) \/ Cleanup(w)
    \/ Exc(w) \/ Fin1(w) \/ Fin2(w)

\* a callback that keeps every chunk it is handed
CallbackKeepsAll == TRUE

\* audio_callback, line 48: `if self.is_recording:`
CallbackKeeps == is_recording

\* audio_callback, lines 45-50, run by the audio subsystem for the active
\* stream s: the chunk, named by its stream and its rank among the chunks
\* of that stream, is appended while is_recording holds
AudioCallback(s) ==
    /\ streams[s] = "active"
    /\ CallbackKeeps
    /\ Len(audio_data) < MaxChunks
    /\ audio_data' = Append(audio_data, <<s, delivered[s] + 1>>)
    /\ delivered' = [delivered EXCEPT ![s] = @ + 1]
    /\ UNCHANGED <<yvars, ivars, taken, is_recording, should_stop, stream, streams, cvars, wvars>>

Next ==
    \/ \E h \in Handlers : HandlerStep(h)
    \/ \E w \in Workers : WorkerStep(w)
    \/ \E s \in Workers : AudioCallback(s)

Spec == Init /\ [][Next]_vars

\* The scheduler runs every runnable thread: a toggle_recording call always
\* gets to take its next step, and so does a worker that is not inside a
\* call that may block (such a call may never return).
LiveSpec ==
    /\ Spec
    /\ \A h \in Handlers : WF_vars(HandlerStep(h))
    /\ \A w \in Workers : WF_vars(WorkerStep(w) /\ ~Blocked(w))

ToggleReturns == \A h \in Handlers : (thread_lock = h) ~> (thread_lock = Unlocked)

\* ------------------------------------------------------------------ properties
AliveWorkers == {w \in Workers : Alive(w)}
OpenStreams == {s \in Workers : streams[s] \in {"open", "active"}}

\* A worker the controller has force-cleaned and replaced: it still runs,
\* and recording_thread names a newer worker
Stale(w) == Alive(w) /\ recording_thread # None /\ recording_thread # w

\* C1: at most one worker thread running _record_and_transcribe is alive at
\* any instant, abandoned workers included.
C1_AtMostOneWorkerAlive == Cardinality(AliveWorkers) <= 1

\* C2: at any instant at most one capture stream is open (constructed and
\* not yet closed).
C2_AtMostOneStreamOpen == Cardinality(OpenStreams) <= 1

\* C3: once the controller has force-cleaned a worker and started a new
\* session, no step of the stale worker changes is_recording, should_stop,
\* the chunk buffer or the state of the new session's stream.
C3_StaleWorkerInert ==
    [][\A w \in Workers :
        (Stale(w) /\ wpc'[w] # wpc[w]) =>
            /\ is_recording' = is_recording
            /\ should_stop' = should_stop
            /\ audio_data' = audio_data
            /\ streams'[recording_thread] = streams[recording_thread]]_vars

\* C4: whenever a worker's routine ends, the recorder is Idle: is_recording
\* is False and should_stop is True.
C4_WorkerEndsIdle ==
    [][\A w \in Workers :
        (wpc[w] # "done" /\ wpc'[w] = "done") =>
            (~is_recording' /\ should_stop')]_vars

\* C7: a worker that has ended has left no audio file behind.
C7_FileDeletedAtEnd == \A w \in Workers : wpc[w] = "done" => w \notin files

C9_StopIdleNoop ==
    [][\A w \in Workers :
        (/\ wpc[w] \in {"st_check", "st_check2"}
         /\ ~is_recording
         /\ audio_data = <<>>
         /\ wpc'[w] # wpc[w]) =>
            /\ wpc'[w] = IF wpc[w] = "st_check" THEN "st_check2" ELSE "fin1"
            /\ UNCHANGED rvars]_vars

\* C9 witness: a stop_recording call has found is_recording False and is
\* about to return None on the empty buffer.
C9_Witness ==
    \E w \in Workers :
        wpc[w] = "st_check2" /\ ~is_recording /\ audio_data = <<>>

\* C10: when a worker whose start_recording opened a stream runs
\* stop_recording on an empty buffer, None is returned (the worker goes to
\* its finally clause without transcribing or injecting), no file is
\* written and the worker's stream is closed.
C10_EmptyStopReturnsNone ==
    [][\A w \in Workers :
        (/\ wpc[w] \in {"st_check2", "st_save"}
         /\ streams[w] # "none"
         /\ audio_data = <<>>
         /\ wpc'[w] # wpc[w]) =>
            /\ wpc'[w] = "fin1"
            /\ files' = files
            /\ streams'[w] = "closed"]_vars

\* C11: a start_recording call that finds the recorder recording fails: it
\* raises to its caller instead of returning.
C11_StartWhileRecordingFails ==
    [][\A w \in Workers :
        (wpc[w] = "sr_check" /\ is_recording /\ wpc'[w] # wpc[w]) =>
            wpc'[w] = Raised]_vars

\* A start toggle has created the worker of the current session, and that
\* worker has not yet marked the recorder as recording: it is before line
\* 37 of start_recording
SessionStarting ==
    /\ recording_thread # None
    /\ wpc[recording_thread] \in {"sr_check", "sr_clear", "sr_setrec"}

\* C24: a toggle taken while the worker a previous toggle created is
\* starting its session is handled as a stop of that session: it takes the
\* stop branch of toggle_recording and creates no worker.
C24_SecondToggleStops ==
    [][\A h \in Handlers :
        (hpc[h] = "idle" /\ hpc'[h] # "idle" /\ SessionStarting) =>
            hpc'[h] = "sp_thread"]_vars

\* C25: a toggle that takes the stop branch (it read is_recording True)
\* sets should_stop in _stop_recording_thread, whatever the worker handle
\* is, and when it returns the recorder is not recording.
C25_StopToggleStops ==
    [][\A h \in Handlers :
        /\ (hpc[h] = "sp_thread" /\ hpc'[h] # "sp_thread") => should_stop'
        /\ (hpc[h] = "t_hide" /\ hpc'[h] = "idle") => ~is_recording']_vars

\* a stop toggle finds no worker handle while the recorder is recording
StopWithoutHandle ==
    \E h \in Handlers :
        hpc[h] = "sp_thread" /\ recording_thread = None /\ is_recording

\* C26: while a stop toggle that has set should_stop waits for the worker
\* of the session, no step of that worker clears should_stop: the signal
\* stays until the worker has observed it.
C26_StopSignalKept ==
    [][\A h \in Handlers :
        (/\ hpc[h] = "sp_join"
         /\ should_stop
         /\ wpc'[recording_thread] # wpc[recording_thread]) =>
            should_stop']_vars

\* The workers force-cleaned after their join timed out: the forced
\* cleanup has discarded their handle
Abandoned == {w \in timed_out : recording_thread # w}

\* C27: a worker the controller force-cleaned after its join timed out
\* never afterwards injects text into the foreground application.
C27_AbandonedNeverInjects ==
    [][(injected' \ injected) \cap Abandoned = {}]_vars

\* C28: when _force_cleanup_thread returns from the cleanup of a worker that
\* is alive, is_recording is False, should_stop is True, no capture stream
\* is open and the worker handle is None.
C28_ForceCleanupStops ==
    [][\A h \in Handlers :
        (/\ hpc[h] = "fc_discard"
         /\ hpc'[h] # "fc_discard"
         /\ Alive(recording_thread)) =>
            /\ ~is_recording'
            /\ should_stop'
            /\ \A s \in Workers : streams'[s] \notin {"open", "active"}
            /\ recording_thread' = None]_vars

\* C29: whenever the recorder is not recording and no worker is alive, no
\* capture stream is open.
C29_StreamOnlyWhileRecording ==
    (~is_recording /\ AliveWorkers = {}) => OpenStreams = {}

\* C30: while a worker is in save_audio, where the chunk buffer is
\* concatenated, no capture stream is running whose callback appends to
\* the buffer (the stream is active and is_recording holds), and no other
\* worker is in start_recording before the statement that resets the
\* buffer.
C30_ReadAfterClose ==
    \A w \in Workers :
        wpc[w] = "sv_concat" =>
            /\ \A s \in Workers : ~(streams[s] = "active" /\ is_recording)
            /\ \A v \in Workers \ {w} : wpc[v] \notin {"sr_check", "sr_clear"}

\* The states the controller is meant to stay in: one worker at a time.
\* Used as a state constraint, it leaves the behaviours in which no worker
\* is started while another one is alive.
OneWorkerAtATime == Cardinality(AliveWorkers) <= 1

\* The chunks the callback of worker w's stream has appended, in the order
\* of their arrival
SessionChunks(w) == [k \in 1..delivered[w] |-> <<w, k>>]

\* C31: when stop_recording returns audio to a worker (save_audio writes
\* the file), the buffer it concatenates is exactly the sequence of the
\* chunks the callback of that worker's stream delivered, in arrival order.
C31_AudioIsSession ==
    [][\A w \in Workers :
        (wpc[w] = "sv_concat" /\ w \notin files /\ w \in files') =>
            audio_data = SessionChunks(w)]_vars

\* One worker at a time, and every stream still open belongs to a worker
\* that is alive. Used as a state constraint, it leaves the behaviours in
\* which no session has left a capture stream behind.
NoLeakedStream ==
    /\ OneWorkerAtATime
    /\ \A s \in Workers : streams[s] \in {"open", "active"} => Alive(s)

\* C32: once stop_recording has returned the audio of the buffer and no
\* start_recording has reset the buffer since, a stop_recording call that
\* finds the recorder not recording returns None at lines 73-75, and
\* save_audio writes no further file.
C32_SecondStopReturnsNone ==
    [][/\ \A w \in Workers :
            (taken /\ ~is_recording /\ wpc[w] = "st_check2" /\ wpc'[w] # wpc[w]) =>
                wpc'[w] = "fin1"
       /\ taken => files' \subseteq files]_vars

\* C33: a step that changes the chunk buffer and is not a step of a worker
\* is a step of the capture callback of an active stream: it is taken
\* with is_recording True and appends one chunk, leaving the chunks
\* already buffered as they are. A chunk delivered with is_recording False
\* is not added.
C33_CallbackOnlyAppends ==
    [][(audio_data' # audio_data /\ wpc' = wpc) =>
        /\ is_recording
        /\ \E s \in Workers :
            /\ streams[s] = "active"
            /\ audio_data' = Append(audio_data, <<s, delivered[s] + 1>>)]_vars

\* C33 witness: stop_recording has cleared is_recording and has not yet
\* closed the stream, which is still delivering chunks; the buffer has
\* room and the chunk delivered now is dropped.
C33_Witness ==
    \E w \in Workers :
        /\ wpc[w] \in {"st_setstop", "st_close"}
        /\ stream = w
        /\ streams[w] = "active"
        /\ ~is_recording
        /\ Len(audio_data) < MaxChunks
        /\ ~ENABLED AudioCallback(w)

\* ------------------------------------------------ the recording indicator
\* the indicator processes that are running
RunningIndicators == {w \in Workers : indicators[w] = "running"}

\* the pynput listener thread, the one caller of toggle_recording
\* (keyboard_handler.py lines 20-24 and 44-45)
Listener == "h1"

InitIndicator ==
    /\ InitRecorder
    /\ indicator_script = "present"
    /\ IdleTimeout
    /\ IdleClip
    /\ IdleRest

NextIndicator ==
    \/ HandlerStep(Listener)
    \/ \E w \in Workers : WorkerStep(w)
    \/ \E s \in Workers : AudioCallback(s)

\* the application on an installation with the indicator script, its
\* toggles coming from the listener thread one after the other
SpecIndicator == InitIndicator /\ [][NextIndicator]_vars

\* C39: at most one recording-indicator process is running, and show() is
\* not about to be called while an indicator started earlier is running.
C39_OneIndicator ==
    /\ Cardinality(RunningIndicators) <= 1
    /\ \A h \in Handlers : hpc[h] = "t_show" => RunningIndicators = {}

\* every running indicator is the one stored in self.process
NoOrphanIndicator == RunningIndicators \subseteq {process}

\* the stored indicator is a running one
StoredIsRunning == process # None => indicators[process] = "running"

\* the first worker ended because InputStream raised, no toggle stopped or
\* force-cleaned it, its indicator is still running, and the next start
\* toggle is about to call show()
ShowAfterWorkerError ==
    /\ hpc[Listener] = "t_show"
    /\ hret[Listener] = "idle"
    /\ wpc[1] = "done"
    /\ streams[1] = "none"
    /\ timed_out = {}
    /\ indicators[1] = "running"

\* ---------------------------------------------------- the join timeout
\* the last second of the clock
MaxClock == 190

\* voice_ptt.py line 78: the base timeout, the seconds of a minute and
\* the seconds added per recorded minute
BaseTimeout == 30
SecondsPerMinute == 60
TimeoutPerMinute == 10

Max(a, b) == IF a >= b THEN a ELSE b

\* Python's int(n / m) for m > 0: the quotient truncated towards zero
IntTrunc(n, m) == IF n >= 0 THEN n \div m ELSE -((-n) \div m)

\* a timeout that grows with every second: int(recording_duration * 10 / 60)
DynamicTimeoutPerSecond(start, now) ==
    LET recording_duration == IF start # None THEN now - start ELSE 0
    IN  Max(BaseTimeout,
            BaseTimeout
              + IntTrunc(recording_duration * TimeoutPerMinute, SecondsPerMinute))

\* lines 76-78: recording_duration and dynamic_timeout, from
\* self._recording_start_time and the time.time() read by the stop
DynamicTimeout(start, now) ==
    LET recording_duration == IF start # None THEN now - start ELSE 0
    IN  Max(BaseTimeout,
            BaseTimeout
              + IntTrunc(recording_duration, SecondsPerMinute) * TimeoutPerMinute)

\* The start toggle recorded its time (line 55) at second 1, or no start
\* time was recorded (__init__, line 36)
InitTimeout ==
    /\ InitApp
    /\ IdleClip
    /\ IdleRest
    /\ clock = 1
    /\ recording_start_time \in {None, 1}
    /\ stopped_at = None
    /\ dynamic_timeout = None

\* a second passes
Tick ==
    /\ clock < MaxClock
    /\ clock' = clock + 1
    /\ UNCHANGED <<recording_start_time, stopped_at, dynamic_timeout>>
    /\ UNCHANGED nottvars

\* _stop_recording_thread, lines 74-78, with a thread handle present
StopTimeout ==
    /\ stopped_at' = clock
    /\ dynamic_timeout' = DynamicTimeout(recording_start_time, clock)
    /\ UNCHANGED <<clock, recording_start_time>>
    /\ UNCHANGED nottvars

NextTimeout == Tick \/ StopTimeout

SpecTimeout == InitTimeout /\ [][NextTimeout]_vars

\* the whole minutes in d seconds: the k with 60k <= d < 60(k+1)
WholeMinutes(d) == CHOOSE k \in 0..d : 60 * k <= d /\ d < 60 * (k + 1)

\* the duration the last stop saw, from the start toggle to the stop toggle
Elapsed == stopped_at - recording_start_time

\* C6: the timeout of a stop is max(30, 30 + 10 * floor(d / 60)) for the
\* elapsed duration d >= 0, never below 30, exactly 30 when no start time
\* was recorded, and a later stop of the same recording never gets a
\* smaller timeout.
C6_TimeoutFormula ==
    /\ [](dynamic_timeout # None =>
            /\ dynamic_timeout >= 30
            /\ recording_start_time = None => dynamic_timeout = 30
            /\ recording_start_time # None =>
                 /\ Elapsed >= 0
                 /\ dynamic_timeout = 30 + 10 * WholeMinutes(Elapsed)
                 /\ Elapsed < 60 => dynamic_timeout = 30)
    /\ [][(dynamic_timeout # None /\ stopped_at' >= stopped_at) =>
            dynamic_timeout' >= dynamic_timeout]_vars

\* C6 witness: a stop 125 s after the start got 30 + 2 * 10 seconds.
C6_Witness ==
    /\ recording_start_time # None
    /\ Elapsed = 125
    /\ dynamic_timeout = 50

\* ---------------------------------------------------- the clipboard
\* what the clipboard, a text argument or a selection can be
Contents == {"", "a", "b"}

PasteOps == {"type_text", "replace_selection"}
ClipOps == PasteOps \cup {"get_highlighted_text"}

InitClip ==
    /\ InitApp
    /\ IdleTimeout
    /\ IdleRest
    /\ clipboard \in Contents
    /\ op = <<"none", "">>
    /\ kpc = "idle"
    /\ original_clipboard = ""
    /\ clip_before = ""
    /\ effects = {}
    /\ restore_raised = FALSE

\* a type_text that never takes the early return
NeverEmptyText(text) == FALSE

\* `not text` / `not new_text`
IsEmptyText(text) == text = ""

\* TextTyper.type_text(text), TextReplacer.replace_selection(new_text) or
\* TextCapture.get_highlighted_text() is called; for the capture, text is
\* what is highlighted in the focused application
ClipCall(name, text) ==
    /\ kpc \in {"idle", "returned", "raised"}
    /\ op' = <<name, text>>
    /\ kpc' = "entry"
    /\ clip_before' = clipboard
    /\ original_clipboard' = ""
    /\ effects' = {}
    /\ restore_raised' = FALSE
    /\ UNCHANGED clipboard
    /\ UNCHANGED notkvars

\* `if not text: return` / `if not new_text: return`
ClipEmptyReturn ==
    /\ kpc = "entry"
    /\ op[1] \in PasteOps
    /\ IsEmptyText(op[2])
    /\ kpc' = "returned"
    /\ UNCHANGED <<clipboard, op, original_clipboard, clip_before, effects,
                   restore_raised>>
    /\ UNCHANGED notkvars

\* type_text, lines 38-45, with the pass-through formatter configured:
\* format_text(text) returns text, '' or None (it raises nothing), and a
\* result that is not empty replaces the text
ClipFormat ==
    /\ kpc = "entry"
    /\ op[1] = "type_text"
    /\ ~IsEmptyText(op[2])
    /\ \E processed_text \in Contents :
         op' = <<op[1], IF processed_text # "" THEN processed_text ELSE op[2]>>
    /\ kpc' = "formatted"
    /\ effects' = effects \cup {"format"}
    /\ UNCHANGED <<clipboard, original_clipboard, clip_before, restore_raised>>
    /\ UNCHANGED notkvars

\* original_clipboard = pyperclip.paste(), before the try: a raise leaves
\* the operation
ClipSnapshot ==
    /\ kpc \in {"entry", "formatted"}
    /\ op[1] \in PasteOps => ~IsEmptyText(op[2])
    /\ \/ /\ original_clipboard' = clipboard
          /\ kpc' = "write"
       \/ /\ kpc' = "raised"
          /\ UNCHANGED original_clipboard
    /\ effects' = effects \cup {"read"}
    /\ UNCHANGED <<clipboard, op, clip_before, restore_raised>>
    /\ UNCHANGED notkvars

\* pyperclip.copy(text) / pyperclip.copy(new_text) / pyperclip.copy("")
ClipWrite ==
    /\ kpc = "write"
    /\ \/ /\ clipboard' = (IF op[1] \in PasteOps THEN op[2] ELSE "")
          /\ kpc' = "keys"
       \/ /\ kpc' = "except"
          /\ UNCHANGED clipboard
    /\ effects' = effects \cup {"write"}
    /\ UNCHANGED <<op, original_clipboard, clip_before, restore_raised>>
    /\ UNCHANGED notkvars

\* the keystrokes and the sleep after them: Ctrl+Shift+V / Ctrl+V makes
\* the application read the clipboard, Ctrl+C makes it copy what is
\* highlighted, if anything is
ClipKeys ==
    /\ kpc = "keys"
    /\ \/ /\ op[1] \in PasteOps
          /\ kpc' = "restore"
          /\ UNCHANGED clipboard
       \/ /\ op[1] = "get_highlighted_text"
          /\ kpc' = "read"
          /\ clipboard' = (IF op[2] # "" THEN op[2] ELSE clipboard)
       \/ /\ kpc' = "except"
          /\ UNCHANGED clipboard
    /\ effects' = effects \cup {"keys"}
    /\ UNCHANGED <<op, original_clipboard, clip_before, restore_raised>>
    /\ UNCHANGED notkvars

\* captured_text = pyperclip.paste()
ClipRead ==
    /\ kpc = "read"
    /\ kpc' \in {"restore", "except"}
    /\ effects' = effects \cup {"read"}
    /\ UNCHANGED <<clipboard, op, original_clipboard, clip_before, restore_raised>>
    /\ UNCHANGED notkvars

\* pyperclip.copy(original_clipboard) at the end of the try
ClipRestore ==
    /\ kpc = "restore"
    /\ \/ /\ clipboard' = original_clipboard
          /\ kpc' = "returned"
       \/ /\ kpc' = "except"
          /\ UNCHANGED clipboard
    /\ effects' = effects \cup {"write"}
    /\ UNCHANGED <<op, original_clipboard, clip_before, restore_raised>>
    /\ UNCHANGED notkvars

\* an except clause that leaves the clipboard as it finds it
ClipExceptNoRestore ==
    /\ kpc = "except"
    /\ kpc' = "returned"
    /\ UNCHANGED <<clipboard, op, original_clipboard, clip_before, effects,
                   restore_raised>>
    /\ UNCHANGED notkvars

\* the except clause: pyperclip.copy(original_clipboard), which may raise
\* in its turn
ClipExcept ==
    /\ kpc = "except"
    /\ \/ /\ clipboard' = original_clipboard
          /\ kpc' = "returned"
          /\ UNCHANGED restore_raised
       \/ /\ kpc' = "raised"
          /\ restore_raised' = TRUE
          /\ UNCHANGED clipboard
    /\ effects' = effects \cup {"write"}
    /\ UNCHANGED <<op, original_clipboard, clip_before>>
    /\ UNCHANGED notkvars

NextClip ==
    \/ \E name \in ClipOps, text \in Contents : ClipCall(name, text)
    \/ ClipEmptyReturn
    \/ ClipFormat
    \/ ClipSnapshot
    \/ ClipWrite
    \/ ClipKeys
    \/ ClipRead
    \/ ClipRestore
    \/ ClipExcept

SpecClip == InitClip /\ [][NextClip]_vars

C12_EmptyTextNoop ==
    (op = <<"type_text", "">> /\ kpc # "idle") =>
        /\ kpc \in {"entry", "returned"}
        /\ effects = {}
        /\ clipboard = clip_before
        /\ kpc = "entry" => ENABLED ClipEmptyReturn

\* C12 witness: type_text("") has returned with a clipboard that is not empty.
C12_Witness ==
    /\ op = <<"type_text", "">>
    /\ kpc = "returned"
    /\ clipboard # ""

\* ---------------------------------------------------- the normalization
\* the longest text the backend returns
MaxLen == 4

\* the characters of a text: a letter and the white space str.split() and
\* str.strip() know
Chars == {"a", " ", "\n", "\r", "\t"}

\* str.isspace()
IsSpace(c) == c \in {" ", "\n", "\r", "\t"}

RECURSIVE LStrip(_)
LStrip(s) == IF s = <<>> \/ ~IsSpace(Head(s)) THEN s ELSE LStrip(Tail(s))

RECURSIVE RStrip(_)
RStrip(s) ==
    IF s = <<>> \/ ~IsSpace(s[Len(s)]) THEN s ELSE RStrip(SubSeq(s, 1, Len(s) - 1))

\* response.strip() / outputs["text"].strip()
Strip(s) == RStrip(LStrip(s))

\* text.replace('\n', ' ').replace('\r', ' ')
ReplaceBreaks(s) ==
    [i \in 1..Len(s) |-> IF s[i] \in {"\n", "\r"} THEN " " ELSE s[i]]

\* text.split(): the maximal runs of characters that are not white space;
\* word is the run being read
RECURSIVE SplitFrom(_, _)
SplitFrom(s, word) ==
    IF s = <<>> THEN (IF word = <<>> THEN <<>> ELSE <<word>>)
    ELSE IF IsSpace(Head(s))
         THEN (IF word = <<>> THEN <<>> ELSE <<word>>) \o SplitFrom(Tail(s), <<>>)
         ELSE SplitFrom(Tail(s), Append(word, Head(s)))

Split(s) == SplitFrom(s, <<>>)

\* ' '.join(words)
RECURSIVE Join(_)
Join(words) ==
    IF words = <<>> THEN <<>>
    ELSE IF Len(words) = 1 THEN words[1]
    ELSE words[1] \o <<" ">> \o Join(Tail(words))

\* str.replace('  ', ' '): one pass from the left over pairs of spaces
RECURSIVE ReplacePairs(_)
ReplacePairs(s) ==
    IF Len(s) < 2 THEN s
    ELSE IF s[1] = " " /\ s[2] = " " THEN <<" ">> \o ReplacePairs(Tail(Tail(s)))
    ELSE <<Head(s)>> \o ReplacePairs(Tail(s))

\* a normalization that collapses pairs of spaces in one pass
NormalizeOnePass(s) == ReplacePairs(ReplaceBreaks(s))

\* transcription.py lines 118-123 (_transcribe_api) and 160-173
\* (_transcribe_local): strip, line breaks to spaces, runs of white space
\* to one space
Normalize(s) == Join(Split(ReplaceBreaks(Strip(s))))

RECURSIVE SeqsUpTo(_)
SeqsUpTo(n) ==
    IF n = 0 THEN {<<>>}
    ELSE LET shorter == SeqsUpTo(n - 1)
         IN  shorter \cup {Append(t, c) : t \in shorter, c \in Chars}

InitNorm ==
    /\ InitApp
    /\ IdleLast
    /\ IdleLater
    /\ IdleTimeout
    /\ IdleClip
    /\ IdleDevice
    /\ IdleMain
    /\ IdleLock
    /\ IdleFormat
    /\ raw \in SeqsUpTo(MaxLen)
    /\ transcript = raw
    /\ norm_count = 0
    /\ once = <<>>

\* the normalization is applied to the text
NormApply ==
    /\ norm_count < 2
    /\ transcript' = Normalize(transcript)
    /\ once' = IF norm_count = 0 THEN Normalize(transcript) ELSE once
    /\ norm_count' = norm_count + 1
    /\ UNCHANGED raw
    /\ UNCHANGED notsvars

NextNorm == NormApply

SpecNorm == InitNorm /\ [][NextNorm]_vars

\* C13: normalizing a normalized text changes nothing, and a normalized
\* text has no line break, no white space but single spaces, and none at
\* either end.
C13_NormalizeIdempotent ==
    /\ norm_count = 2 => transcript = once
    /\ norm_count >= 1 =>
         /\ \A i \in 1..Len(transcript) : transcript[i] \in {"a", " "}
         /\ \A i \in 1..(Len(transcript) - 1) : ~(transcript[i] = " " /\ transcript[i + 1] = " ")
         /\ transcript # <<>> => (transcript[1] # " " /\ transcript[Len(transcript)] # " ")

\* C13 witness: a text with a line break inside a run of white space was
\* normalized twice.
C13_Witness ==
    /\ norm_count = 2
    /\ raw = <<"a", " ", "\n", "a">>
    /\ transcript = <<"a", " ", "a">>

\* ---------------------------------------------------- device selection
\* a preference list in ascending order
RatesAscending == <<8000, 16000, 22050, 44100, 48000>>

\* config.py: CHANNELS and PREFERRED_SAMPLE_RATES
CHANNELS == 1
PREFERRED_SAMPLE_RATES == <<44100, 48000, 16000, 22050, 8000>>

\* audio_device.py line 231: the rate used when the native one is not preferred
FallbackRate == 44100
\* line 266: the channel count of the stereo retry
StereoChannels == 2
\* line 280: the rate of the system defaults
DefaultsRate == 44100

\* the native rates a default input device may report
NativeRates == {44100, 48000, 16000, 22050, 8000, 96000}

Preferred == {PREFERRED_SAMPLE_RATES[i] : i \in 1..Len(PREFERRED_SAMPLE_RATES)}

\* no configuration
NoConfig == <<>>

\* a first candidate that ignores the native rate
FirstCandidateFixed(rate) == FallbackRate

\* lines 227-231: the native rate if it is preferred, else 44100
FirstCandidate(rate) == IF rate \in Preferred THEN rate ELSE FallbackRate

\* The default input device reports a native rate, and PortAudio accepts
\* some of the mono configurations and maybe stereo at the native rate;
\* the device query itself may fail
InitDevice ==
    /\ InitApp
    /\ IdleLast
    /\ IdleLater
    /\ IdleTimeout
    /\ IdleClip
    /\ IdleNorm
    /\ IdleMain
    /\ IdleLock
    /\ IdleFormat
    /\ native_rate \in NativeRates
    /\ \E mono \in SUBSET (NativeRates \X {CHANNELS}),
          stereo \in SUBSET {<<native_rate, StereoChannels>>} :
            supported = mono \cup stereo
    /\ query_ok \in BOOLEAN
    /\ dpc = "start"
    /\ selected_rate = None
    /\ fallback_idx = None
    /\ checks = <<>>
    /\ returned_config = NoConfig
    /\ opened = NoConfig

\* get_audio_device_info, lines 207-231: the devices are queried (a failure
\* goes to the outer except clause) and the first candidate is chosen
DevQuery ==
    /\ dpc = "start"
    /\ IF query_ok
       THEN /\ selected_rate' = FirstCandidate(native_rate)
            /\ dpc' = "validate"
       ELSE /\ dpc' = "defaults"
            /\ UNCHANGED selected_rate
    /\ UNCHANGED <<native_rate, supported, query_ok, fallback_idx, checks,
                   returned_config, opened>>
    /\ UNCHANGED notdvars

\* lines 234-245: check_input_settings on the first candidate; it is
\* returned, or PortAudioError starts the fallbacks
DevValidate ==
    /\ dpc = "validate"
    /\ checks' = Append(checks, <<selected_rate, CHANNELS>>)
    /\ IF <<selected_rate, CHANNELS>> \in supported
       THEN /\ returned_config' = <<"default_input", selected_rate, CHANNELS>>
            /\ dpc' = "returned"
            /\ UNCHANGED fallback_idx
       ELSE /\ dpc' = "fallback"
            /\ fallback_idx' = 1
            /\ UNCHANGED returned_config
    /\ UNCHANGED <<native_rate, supported, query_ok, selected_rate, opened>>
    /\ UNCHANGED notdvars

\* lines 247-260: one turn of the loop over PREFERRED_SAMPLE_RATES
DevFallback ==
    /\ dpc = "fallback"
    /\ fallback_idx <= Len(PREFERRED_SAMPLE_RATES)
    /\ LET rate == PREFERRED_SAMPLE_RATES[fallback_idx]
       IN  IF rate = selected_rate
           THEN /\ fallback_idx' = fallback_idx + 1
                /\ UNCHANGED <<checks, returned_config, dpc>>
           ELSE /\ checks' = Append(checks, <<rate, CHANNELS>>)
                /\ IF <<rate, CHANNELS>> \in supported
                   THEN /\ returned_config' = <<"default_input", rate, CHANNELS>>
                        /\ dpc' = "returned"
                        /\ UNCHANGED fallback_idx
                   ELSE /\ fallback_idx' = fallback_idx + 1
                        /\ UNCHANGED <<returned_config, dpc>>
    /\ UNCHANGED <<native_rate, supported, query_ok, selected_rate, opened>>
    /\ UNCHANGED notdvars

\* lines 262-275: the stereo retry at the native rate; when it fails too
\* the exception raised at line 275 is caught at line 277
DevStereo ==
    /\ dpc = "fallback"
    /\ fallback_idx > Len(PREFERRED_SAMPLE_RATES)
    /\ checks' = Append(checks, <<native_rate, StereoChannels>>)
    /\ IF <<native_rate, StereoChannels>> \in supported
       THEN /\ returned_config' = <<"default_input", native_rate, StereoChannels>>
            /\ dpc' = "returned"
       ELSE /\ dpc' = "defaults"
            /\ UNCHANGED returned_config
    /\ UNCHANGED <<native_rate, supported, query_ok, selected_rate,
                   fallback_idx, opened>>
    /\ UNCHANGED notdvars

\* lines 277-280: `return None, 44100, channels`
DevDefaults ==
    /\ dpc = "defaults"
    /\ returned_config' = <<"none", DefaultsRate, CHANNELS>>
    /\ dpc' = "returned"
    /\ UNCHANGED <<native_rate, supported, query_ok, selected_rate,
                   fallback_idx, checks, opened>>
    /\ UNCHANGED notdvars

\* start_recording, audio_recorder.py lines 33 and 55-62: the stream is
\* constructed with what get_audio_device_info returned
DevOpen ==
    /\ dpc = "returned"
    /\ opened' = returned_config
    /\ dpc' = "opened"
    /\ UNCHANGED <<native_rate, supported, query_ok, selected_rate,
                   fallback_idx, checks, returned_config>>
    /\ UNCHANGED notdvars

NextDevice ==
    \/ DevQuery
    \/ DevValidate
    \/ DevFallback
    \/ DevStereo
    \/ DevDefaults
    \/ DevOpen

SpecDevice == InitDevice /\ [][NextDevice]_vars

\* the configurations get_audio_device_info validated and found accepted
Validated == {checks[i] : i \in 1..Len(checks)} \cap supported

\* every configuration get_audio_device_info tries is refused
AllFail ==
    /\ \A r \in Preferred \cup {FirstCandidate(native_rate)} :
         <<r, CHANNELS>> \notin supported
    /\ <<native_rate, StereoChannels>> \notin supported

\* C14: the first configuration validated is the native rate when it is one
\* of 44100, 48000, 16000, 22050, 8000 and 44100 otherwise, with the
\* configured channel count; when it is accepted it is what is returned and
\* nothing else was validated.
C14_FirstCandidate ==
    LET candidate == IF native_rate \in {44100, 48000, 16000, 22050, 8000}
                     THEN native_rate ELSE 44100
    IN  /\ Len(checks) >= 1 => checks[1] = <<candidate, 1>>
        /\ (dpc \in {"returned", "opened"} /\ query_ok
              /\ <<candidate, 1>> \in supported) =>
               /\ returned_config = <<"default_input", candidate, 1>>
               /\ Len(checks) = 1

\* C14 witness: a device at 48000 Hz was given 48000 Hz after one validation.
C14_Witness ==
    /\ native_rate = 48000
    /\ dpc = "returned"
    /\ returned_config = <<"default_input", 48000, 1>>
    /\ checks = << <<48000, 1>> >>

\* C15: when every configuration is refused, get_audio_device_info returns
\* no configuration, and no stream is opened with a configuration that
\* was not validated and accepted.
C15_NoCompatibleConfig ==
    /\ (dpc \in {"returned", "opened"} /\ query_ok /\ AllFail) =>
          returned_config = NoConfig
    /\ opened # NoConfig => <<opened[2], opened[3]>> \in Validated

\* ---------------------------------------------------- startup (main)
\* max_input_channels of the devices sd.query_devices() knows, by index:
\* device 0 is an input device, device 1 has no input channel
devices == [i \in {0, 1} |-> IF i = 0 THEN 2 ELSE 0]

\* the values of --device (<<>>: absent): an input device, a device without input
\* channels, an index that names no device
DeviceArgs == {<<>>, <<0>>, <<1>>, <<2>>}

\* what happens at the selection prompt
Prompts == {"default", "choose", "interrupt", "eof", "error"}

InitMain ==
    /\ InitApp
    /\ IdleLast
    /\ IdleLater
    /\ IdleTimeout
    /\ IdleClip
    /\ IdleNorm
    /\ IdleDevice
    /\ IdleLock
    /\ IdleFormat
    /\ args \in [list_devices : BOOLEAN, device : DeviceArgs,
                 no_device_select : BOOLEAN, local : BOOLEAN]
    /\ env \in [should_skip : BOOLEAN, prompt : Prompts,
                has_key : BOOLEAN, local_init_ok : BOOLEAN]
    /\ mpc = "start"
    /\ exit_code = <<>>
    /\ default_device = <<>>
    /\ set_result = "uncalled"
    /\ selection = "none"
    /\ app = "none"
    /\ startup_error = "none"

\* a set_device that only asks whether the device exists
DeviceExists(device_index) == device_index \in DOMAIN devices

\* set_device, lines 296-307: query_devices(device_index) answers and the
\* device has input channels
IsInputDevice(device_index) ==
    /\ device_index \in DOMAIN devices
    /\ devices[device_index] > 0

\* main, lines 251-253: --list-devices lists and exits with 0
MainList ==
    /\ mpc = "start"
    /\ args.list_devices
    /\ exit_code' = <<0>>
    /\ mpc' = "exited"
    /\ UNCHANGED <<args, env, default_device, set_result, selection, app,
                   startup_error>>
    /\ UNCHANGED notmvars

\* main, lines 259-262, and set_device: the default input device is set
\* and True returned, or False is returned
MainSetDevice ==
    /\ mpc = "start"
    /\ ~args.list_devices
    /\ args.device # <<>>
    /\ IF IsInputDevice(args.device[1])
       THEN /\ default_device' = args.device
            /\ set_result' = "true"
            /\ mpc' = "settings"
            /\ UNCHANGED startup_error
       ELSE /\ set_result' = "false"
            /\ mpc' = "device_failed"
            /\ startup_error' = "invalid_device"
            /\ UNCHANGED default_device
    /\ UNCHANGED <<args, env, exit_code, selection, app>>
    /\ UNCHANGED notmvars

\* line 263: sys.exit(1)
MainDeviceExit ==
    /\ mpc = "device_failed"
    /\ exit_code' = <<1>>
    /\ mpc' = "exited"
    /\ UNCHANGED <<args, env, default_device, set_result, selection, app,
                   startup_error>>
    /\ UNCHANGED notmvars

\* main, lines 264-270, and list_and_select_device_linux: the user takes
\* the default, chooses a device, or cancels (KeyboardInterrupt, EOFError:
\* DeviceSelectionCancelled is raised), or something else raises, which
\* list_and_select_device turns into None (lines 197-200)
SelectLinux ==
    /\ mpc = "start"
    /\ ~args.list_devices
    /\ args.device = <<>>
    /\ ~args.no_device_select
    /\ ~env.should_skip
    /\ \/ /\ env.prompt = "default"
          /\ selection' = "default"
          /\ mpc' = "settings"
          /\ UNCHANGED default_device
       \/ /\ env.prompt = "choose"
          /\ selection' = "chosen"
          /\ default_device' = <<0>>
          /\ mpc' = "settings"
       \/ /\ env.prompt \in {"interrupt", "eof"}
          /\ selection' = "cancel_raised"
          /\ mpc' = "linux_raised"
          /\ UNCHANGED default_device
       \/ /\ env.prompt = "error"
          /\ selection' = "error_default"
          /\ mpc' = "settings"
          /\ UNCHANGED default_device
    /\ UNCHANGED <<args, env, exit_code, set_result, app, startup_error>>
    /\ UNCHANGED notmvars

\* a list_and_select_device that treats the cancellation like any other
\* exception and returns None
SelectSwallow ==
    /\ mpc = "linux_raised"
    /\ selection' = "error_default"
    /\ mpc' = "settings"
    /\ UNCHANGED <<args, env, exit_code, default_device, set_result, app,
                   startup_error>>
    /\ UNCHANGED notmvars

\* list_and_select_device, lines 194-196: DeviceSelectionCancelled is
\* raised again
SelectReraise ==
    /\ mpc = "linux_raised"
    /\ selection' = "cancelled"
    /\ mpc' = "select_raised"
    /\ UNCHANGED <<args, env, exit_code, default_device, set_result, app,
                   startup_error>>
    /\ UNCHANGED notmvars

\* main, lines 271-274: the cancellation is caught and main goes on
MainCatchCancel ==
    /\ mpc = "select_raised"
    /\ mpc' = "settings"
    /\ UNCHANGED <<args, env, exit_code, default_device, set_result,
                   selection, app, startup_error>>
    /\ UNCHANGED notmvars

\* main, lines 264 and 275-282: no selection with --no-device-select or on
\* Windows/WSL
MainSkip ==
    /\ mpc = "start"
    /\ ~args.list_devices
    /\ args.device = <<>>
    /\ args.no_device_select \/ env.should_skip
    /\ mpc' = "settings"
    /\ UNCHANGED <<args, env, exit_code, default_device, set_result,
                   selection, app, startup_error>>
    /\ UNCHANGED notmvars

\* main, lines 298-311: VoiceTypingApp(use_local) builds the Transcriber:
\* _initialize_client raises ValueError without a key (transcription.py
\* 32-34), _initialize_local_model raises ImportError or Exception when
\* the model cannot be loaded (83-86)
MainCreateApp ==
    /\ mpc = "settings"
    /\ IF args.local
       THEN IF env.local_init_ok
            THEN /\ app' = "created"
                 /\ mpc' = "run"
                 /\ UNCHANGED startup_error
            ELSE /\ app' = "failed"
                 /\ mpc' = "exception"
                 /\ startup_error' = "backend_init"
       ELSE IF env.has_key
            THEN /\ app' = "created"
                 /\ mpc' = "run"
                 /\ UNCHANGED startup_error
            ELSE /\ app' = "failed"
                 /\ mpc' = "value_error"
                 /\ startup_error' = "no_credentials"
    /\ UNCHANGED <<args, env, exit_code, default_device, set_result, selection>>
    /\ UNCHANGED notmvars

\* lines 313-317: `except ValueError`: sys.exit(1)
MainValueError ==
    /\ mpc = "value_error"
    /\ exit_code' = <<1>>
    /\ mpc' = "exited"
    /\ UNCHANGED <<args, env, default_device, set_result, selection, app,
                   startup_error>>
    /\ UNCHANGED notmvars

\* lines 321-324: `except Exception`: the error is printed and main
\* returns, so the interpreter exits with 0
MainException ==
    /\ mpc = "exception"
    /\ exit_code' = <<0>>
    /\ mpc' = "exited"
    /\ UNCHANGED <<args, env, default_device, set_result, selection, app,
                   startup_error>>
    /\ UNCHANGED notmvars

\* lines 312 and 318-320: app.run() returns, or is interrupted and cleaned
\* up; main returns
MainRun ==
    /\ mpc = "run"
    /\ exit_code' = <<0>>
    /\ mpc' = "exited"
    /\ UNCHANGED <<args, env, default_device, set_result, selection, app,
                   startup_error>>
    /\ UNCHANGED notmvars

NextMain ==
    \/ MainList
    \/ MainSetDevice
    \/ MainDeviceExit
    \/ SelectLinux
    \/ SelectReraise
    \/ MainCatchCancel
    \/ MainSkip
    \/ MainCreateApp
    \/ MainValueError
    \/ MainException
    \/ MainRun

SpecMain == InitMain /\ [][NextMain]_vars

\* C16: when set_device is asked for a device without input channels or
\* for an index that names no device, it returns False, the default input
\* device stays what it was, no application (and so no recorder or stream)
\* is created, and the process exits with 1.
C16_BadDeviceExits ==
    (args.device \in {<<1>>, <<2>>} /\ set_result # "uncalled") =>
        /\ set_result = "false"
        /\ default_device = <<>>
        /\ app = "none"
        /\ mpc \in {"device_failed", "exited"}
        /\ mpc = "device_failed" => ENABLED MainDeviceExit
        /\ mpc = "exited" => exit_code = <<1>>

\* C16 witness: the process has exited after --device named a device
\* without input channels.
C16_Witness ==
    /\ args.device = <<1>>
    /\ set_result = "false"
    /\ mpc = "exited"
    /\ exit_code = <<1>>

\* C17: a process that met a startup error (no credentials, invalid
\* device index, transcription backend that cannot be initialized) exits
\* with 1, and one that exits with 0 met none.
C17_ExitCodes ==
    mpc = "exited" =>
        /\ startup_error # "none" => exit_code = <<1>>
        /\ exit_code = <<0>> => startup_error = "none"

\* C20: when the user cancels at the selection prompt, the cancellation
\* reaches main as DeviceSelectionCancelled, the process does not exit on
\* it, the default device stays the system's, and main goes on to create
\* the application.
C20_CancelContinues ==
    (env.prompt \in {"interrupt", "eof"} /\ selection # "none") =>
        /\ selection \in {"cancel_raised", "cancelled"}
        /\ mpc # "linux_raised" => selection = "cancelled"
        /\ default_device = <<>>
        /\ mpc = "linux_raised" => ENABLED SelectReraise
        /\ mpc = "select_raised" => ENABLED MainCatchCancel
        /\ mpc = "settings" => ENABLED MainCreateApp
        /\ mpc = "exited" => app # "none"

\* C20 witness: the application runs after the selection was cancelled.
C20_Witness ==
    /\ env.prompt = "interrupt"
    /\ selection = "cancelled"
    /\ app = "created"
    /\ mpc = "run"
    /\ default_device = <<>>

\* ---------------------------------------------------- the instance lock
\* the AI Fix processes that start
Instances == {"p1", "p2"}

\* what /tmp/ai-fix.lock may hold at the start (<<>>: no file): the pid of
\* a process that is gone, or of one that still runs
StartLocks == {<<>>, <<"dead">>, <<"other">>}

\* _is_process_running, lines 65-72: os.kill(int(pid), 0) succeeds
IsProcessRunning(pid) ==
    \/ pid = "other"
    \/ pid \in Instances /\ lpc[pid] # "exited"

InitLock ==
    /\ InitApp
    /\ IdleLast
    /\ IdleLater
    /\ IdleTimeout
    /\ IdleClip
    /\ IdleNorm
    /\ IdleDevice
    /\ IdleMain
    /\ IdleFormat
    /\ lock_file \in StartLocks
    /\ lpc = [p \in Instances |-> "start"]
    /\ existing_pid = [p \in Instances |-> ""]

\* acquire, line 31: os.path.exists(self.lock_file)
LockExists(p) ==
    /\ lpc[p] = "start"
    /\ lpc' = [lpc EXCEPT ![p] = IF lock_file # <<>> THEN "read" ELSE "create"]
    /\ UNCHANGED <<lock_file, existing_pid>>
    /\ UNCHANGED notlvars

\* lines 32-33: the file is read; if it is gone by now, open raises and
\* acquire returns False (lines 53-55)
LockRead(p) ==
    /\ lpc[p] = "read"
    /\ IF lock_file # <<>>
       THEN /\ existing_pid' = [existing_pid EXCEPT ![p] = lock_file[1]]
            /\ lpc' = [lpc EXCEPT ![p] = "check"]
       ELSE /\ lpc' = [lpc EXCEPT ![p] = "failed"]
            /\ UNCHANGED existing_pid
    /\ UNCHANGED lock_file
    /\ UNCHANGED notlvars

\* lines 36-40: False if the pid read names a running process
LockCheck(p) ==
    /\ lpc[p] = "check"
    /\ lpc' = [lpc EXCEPT ![p] =
                 IF existing_pid[p] # "" /\ IsProcessRunning(existing_pid[p])
                 THEN "failed" ELSE "remove"]
    /\ UNCHANGED <<lock_file, existing_pid>>
    /\ UNCHANGED notlvars

\* line 42: os.remove(self.lock_file); if the file is gone by now it raises
\* and acquire returns False
LockRemove(p) ==
    /\ lpc[p] = "remove"
    /\ IF lock_file # <<>>
       THEN /\ lock_file' = <<>>
            /\ lpc' = [lpc EXCEPT ![p] = "create"]
       ELSE /\ lpc' = [lpc EXCEPT ![p] = "failed"]
            /\ UNCHANGED lock_file
    /\ UNCHANGED existing_pid
    /\ UNCHANGED notlvars

\* line 45: open(self.lock_file, 'w') creates the file or empties it
LockCreate(p) ==
    /\ lpc[p] = "create"
    /\ lock_file' = <<"">>
    /\ lpc' = [lpc EXCEPT ![p] = "write"]
    /\ UNCHANGED existing_pid
    /\ UNCHANGED notlvars

\* lines 46-51: the pid is written (to this file, whatever became of its
\* name), atexit is registered and True returned
LockWrite(p) ==
    /\ lpc[p] = "write"
    /\ lock_file' = IF lock_file # <<>> THEN <<p>> ELSE lock_file
    /\ lpc' = [lpc EXCEPT ![p] = "held"]
    /\ UNCHANGED existing_pid
    /\ UNCHANGED notlvars

\* main, lines 372-373: acquire returned False: sys.exit(1)
LockFailedExit(p) ==
    /\ lpc[p] = "failed"
    /\ lpc' = [lpc EXCEPT ![p] = "exited"]
    /\ UNCHANGED <<lock_file, existing_pid>>
    /\ UNCHANGED notlvars

\* main, line 384, and release, lines 57-63: the instance stops and removes
\* the lock file if there is one
LockRelease(p) ==
    /\ lpc[p] = "held"
    /\ lock_file' = <<>>
    /\ lpc' = [lpc EXCEPT ![p] = "exited"]
    /\ UNCHANGED existing_pid
    /\ UNCHANGED notlvars

NextLock ==
    \E p \in Instances :
        \/ LockExists(p)
        \/ LockRead(p)
        \/ LockCheck(p)
        \/ LockRemove(p)
        \/ LockCreate(p)
        \/ LockWrite(p)
        \/ LockFailedExit(p)
        \/ LockRelease(p)

SpecLock == InitLock /\ [][NextLock]_vars

\* the instances whose acquire returned True and that have not released
Holders == {p \in Instances : lpc[p] = "held"}

\* C18: at most one instance holds the lock at a time, and an acquire that
\* reads the pid of a running process from the lock file returns False
\* and leaves the file as it is.
C18_OneInstance ==
    /\ [](Cardinality(Holders) <= 1)
    /\ [][\A p \in Instances :
            (/\ lpc[p] = "check"
             /\ existing_pid[p] # ""
             /\ IsProcessRunning(existing_pid[p])
             /\ lpc'[p] # lpc[p]) =>
                /\ lpc'[p] = "failed"
                /\ lock_file' = lock_file]_vars

\* ---------------------------------------------------- the formatter
\* the most lines a streamed response has
MaxLines == 2

\* the status format_text accepts
OkStatus == 200

\* the statuses the backend answers with
Statuses == {200, 204, 404, 500}

\* the lines of a streamed body: empty, not a data line, the end marker, a
\* data line that is not JSON, one without choices, one with a content
\* delta, one whose content is the JSON null
Lines == {<<"blank">>, <<"other">>, <<"done">>, <<"badjson">>, <<"nochoices">>,
          <<"content", "a">>, <<"content", " ">>, <<"nullcontent">>}

RECURSIVE LinesUpTo(_)
LinesUpTo(n) ==
    IF n = 0 THEN {<<>>}
    ELSE LET shorter == LinesUpTo(n - 1)
         IN  shorter \cup {Append(t, l) : t \in shorter, l \in Lines}

\* what format_text returns: nothing yet, None, or a string
NotReturned == <<>>
ReturnedNone == <<"None">>
ReturnedStr(s) == <<"str", s>>

InitFormat ==
    /\ InitApp
    /\ IdleLast
    /\ IdleLater
    /\ IdleTimeout
    /\ IdleClip
    /\ IdleNorm
    /\ IdleDevice
    /\ IdleMain
    /\ IdleLock
    /\ response \in [connects : BOOLEAN, status_code : Statuses,
                     lines : LinesUpTo(MaxLines)]
    /\ fpc = "post"
    /\ line_idx = 1
    /\ full_response = <<>>
    /\ format_result = NotReturned

\* a test that takes every 2xx status for success
StatusIs2xx(status_code) == status_code \div 100 = 2

\* line 54: `response.status_code != 200` is false
StatusOk(status_code) == status_code = OkStatus

\* format_text, lines 45-52 and 82-87: requests.post answers, or raises
\* and None is returned
FmtPost ==
    /\ fpc = "post"
    /\ IF response.connects
       THEN /\ fpc' = "status"
            /\ UNCHANGED format_result
       ELSE /\ fpc' = "returned"
            /\ format_result' = ReturnedNone
    /\ UNCHANGED <<response, line_idx, full_response>>
    /\ UNCHANGED notfvars

\* lines 54-59: a status other than 200 returns None; else full_response = ""
FmtStatus ==
    /\ fpc = "status"
    /\ IF StatusOk(response.status_code)
       THEN /\ fpc' = "iter"
            /\ UNCHANGED format_result
       ELSE /\ fpc' = "returned"
            /\ format_result' = ReturnedNone
    /\ UNCHANGED <<response, line_idx, full_response>>
    /\ UNCHANGED notfvars

\* lines 60-77: one line of response.iter_lines(). With a content that is
\* not a string, `full_response += content` raises TypeError, which is
\* not the JSONDecodeError of line 76: lines 85-87 return None
FmtLine ==
    /\ fpc = "iter"
    /\ line_idx <= Len(response.lines)
    /\ LET line == response.lines[line_idx]
       IN  IF line = <<"nullcontent">>
           THEN /\ fpc' = "returned"
                /\ format_result' = ReturnedNone
                /\ UNCHANGED full_response
           ELSE /\ fpc' = IF line = <<"done">> THEN "finish" ELSE "iter"
                /\ full_response' = IF line[1] = "content"
                                    THEN Append(full_response, line[2])
                                    ELSE full_response
                /\ UNCHANGED format_result
    /\ line_idx' = line_idx + 1
    /\ UNCHANGED response
    /\ UNCHANGED notfvars

\* lines 79-80: `return full_response.strip()`, after the last line or [DONE]
FmtReturn ==
    /\ \/ fpc = "finish"
       \/ fpc = "iter" /\ line_idx > Len(response.lines)
    /\ format_result' = ReturnedStr(Strip(full_response))
    /\ fpc' = "returned"
    /\ UNCHANGED <<response, line_idx, full_response>>
    /\ UNCHANGED notfvars

NextFormat ==
    \/ FmtPost
    \/ FmtStatus
    \/ FmtLine
    \/ FmtReturn

SpecFormat == InitFormat /\ [][NextFormat]_vars

\* C19: when the backend answers with a status other than 200, format_text
\* returns None and has taken nothing from the body, whatever the body holds.
C19_Non200IsFailure ==
    (response.connects /\ response.status_code # 200) =>
        /\ full_response = <<>>
        /\ fpc \in {"post", "status", "returned"}
        /\ fpc = "returned" => format_result = <<"None">>
        /\ fpc = "status" => ENABLED FmtStatus

\* C19 witness: None was returned for a 204 answer whose body carries content.
C19_Witness ==
    /\ response.connects
    /\ response.status_code = 204
    /\ response.lines = << <<"content", "a">>, <<"done">> >>
    /\ fpc = "returned"
    /\ format_result = <<"None">>

\* ------------------------------------------------------ platform detection
\* what platform.system().lower() answers
Systems == {"windows", "linux", "darwin", "freebsd"}

\* /proc/version: it cannot be read, or it holds neither signature, or it
\* holds 'microsoft', or 'wsl'
ProcVersions == {"unreadable", "plain", "microsoft", "wsl"}

\* the functions of the module that callers use
PlatformCalls == {"should_skip_device_selection", "list_and_select_device"}

InitPlatform ==
    /\ InitApp
    /\ IdleLast
    /\ IdleTimeout
    /\ IdleClip
    /\ IdleNorm
    /\ IdleDevice
    /\ IdleMain
    /\ IdleLock
    /\ IdleFormat
    /\ IdleUnmute
    /\ host \in [system : Systems, proc_version : ProcVersions,
                 wsl_distro_name : BOOLEAN, wslenv : BOOLEAN,
                 prompt : Prompts, called : PlatformCalls]
    /\ ppc = "detect_os"
    /\ os_type = "undetected"
    /\ wsl_detected = FALSE
    /\ skip_result = <<>>
    /\ select_return = <<>>
    /\ prompted = FALSE

\* detect_operating_system, lines 19-29
DetectOperatingSystem(system) ==
    IF system = "windows" THEN "windows"
    ELSE IF system = "linux" THEN "linux"
    ELSE IF system = "darwin" THEN "macos"
    ELSE "unknown"

\* is_wsl, lines 44-61: a signature in /proc/version, or WSL_DISTRO_NAME, or
\* WSLENV
IsWsl(h) ==
    \/ h.proc_version \in {"microsoft", "wsl"}
    \/ h.wsl_distro_name
    \/ h.wslenv

\* a test that looks at the operating system alone
SkipOnWindowsOnly(os, wsl) == os = "windows"

\* should_skip_device_selection, line 80
SkipCondition(os, wsl) == os = "windows" \/ wsl

\* should_skip_device_selection, line 76
PlatDetectOs ==
    /\ ppc = "detect_os"
    /\ os_type' = DetectOperatingSystem(host.system)
    /\ ppc' = "is_wsl"
    /\ UNCHANGED <<host, wsl_detected, skip_result, select_return, prompted>>
    /\ UNCHANGED notpvars

\* line 77
PlatIsWsl ==
    /\ ppc = "is_wsl"
    /\ wsl_detected' = IsWsl(host)
    /\ ppc' = "decide"
    /\ UNCHANGED <<host, os_type, skip_result, select_return, prompted>>
    /\ UNCHANGED notpvars

\* lines 80-85: True or False is returned, to the caller or to line 186 of
\* list_and_select_device
PlatDecide ==
    /\ ppc = "decide"
    /\ skip_result' = <<SkipCondition(os_type, wsl_detected)>>
    /\ ppc' = IF host.called = "list_and_select_device" THEN "select"
              ELSE "returned"
    /\ UNCHANGED <<host, os_type, wsl_detected, select_return, prompted>>
    /\ UNCHANGED notpvars

\* list_and_select_device, lines 186-189: None is returned at once
PlatSelectSkip ==
    /\ ppc = "select"
    /\ skip_result = <<TRUE>>
    /\ select_return' = <<"None">>
    /\ ppc' = "returned"
    /\ UNCHANGED <<host, os_type, wsl_detected, skip_result, prompted>>
    /\ UNCHANGED notpvars

\* lines 192-200 and list_and_select_device_linux: the listing raises
\* before the prompt, or input() is called and the user takes the default,
\* chooses a device or cancels
PlatSelectLinux ==
    /\ ppc = "select"
    /\ skip_result = <<FALSE>>
    /\ prompted' = (host.prompt # "error")
    /\ select_return' =
          IF host.prompt \in {"default", "error"} THEN <<"None">>
          ELSE IF host.prompt = "choose" THEN <<"device">>
          ELSE <<"DeviceSelectionCancelled">>
    /\ ppc' = "returned"
    /\ UNCHANGED <<host, os_type, wsl_detected, skip_result>>
    /\ UNCHANGED notpvars

NextPlatform ==
    \/ PlatDetectOs
    \/ PlatIsWsl
    \/ PlatDecide
    \/ PlatSelectSkip
    \/ PlatSelectLinux

SpecPlatform == InitPlatform /\ [][NextPlatform]_vars

\* C21: should_skip_device_selection returns True exactly when the
\* operating system detected is 'windows' or WSL was detected, and False
\* otherwise; when it returns True, list_and_select_device returns None
\* and has not prompted.
C21_SkipOnWindowsOrWsl ==
    /\ skip_result # <<>> =>
          skip_result[1] = (os_type = "windows" \/ wsl_detected)
    /\ (select_return # <<>> /\ (os_type = "windows" \/ wsl_detected)) =>
          (select_return = <<"None">> /\ ~prompted)

\* C21 witness: on a Linux host where only WSLENV tells of WSL,
\* list_and_select_device has returned None although the user would have
\* chosen a device.
C21_Witness ==
    /\ host.system = "linux"
    /\ host.proc_version = "plain"
    /\ ~host.wsl_distro_name
    /\ host.wslenv
    /\ host.prompt = "choose"
    /\ host.called = "list_and_select_device"
    /\ ppc = "returned"
    /\ skip_result = <<TRUE>>
    /\ select_return = <<"None">>
    /\ ~prompted

\* ------------------------------------------------- the microphone unmute
\* sources a listing may hold
MaxSources == 2

\* keyboard_handler.py line 91
max_attempts == 2

\* a source of the listing: properties['device.bus'], 'monitor' in its
\* name, whether 'AT2020' is in device.product.name ("AT2020"), or else
\* 'Audio-Technica' in device.vendor.name ("Audio-Technica"), or neither
\* ("other"), and whether its line of the short listing holds 'AT2020' or
\* 'USB'
SourceKinds == [bus : {"usb", "pci"}, monitor : BOOLEAN,
                maker : {"AT2020", "Audio-Technica", "other"},
                short_match : BOOLEAN]

RECURSIVE SourcesUpTo(_)
SourcesUpTo(n) ==
    IF n = 0 THEN {<<>>}
    ELSE LET shorter == SourcesUpTo(n - 1)
         IN  shorter \cup {Append(t, k) : t \in shorter, k \in SourceKinds}

\* `which pactl` fails; or the listing fails; or its output is not JSON; or
\* it is parsed; or subprocess.run raises (no `which` program)
Listings == {"no_pactl", "failed", "not_json", "parsed", "raised"}

\* how an attempt ends: the unmute command fails (line 97); the
\* verification fails (135), reads a false value (108), a true one (126),
\* or no JSON (131); or a subprocess call raises (150)
Verdicts == {"command_failed", "unverifiable", "unmuted", "muted", "bad_json",
             "raised"}

InitUnmute ==
    /\ InitApp
    /\ IdleLast
    /\ IdleTimeout
    /\ IdleClip
    /\ IdleNorm
    /\ IdleDevice
    /\ IdleMain
    /\ IdleLock
    /\ IdleFormat
    /\ IdlePlatform
    /\ listing \in Listings
    /\ sources \in SourcesUpTo(MaxSources)
    /\ listing \in {"no_pactl", "failed", "raised"} => sources = <<>>
    /\ upc = "which"
    /\ source_to_unmute = None
    /\ attempt = 0
    /\ unmute_commands = <<>>
    /\ verdicts = <<>>

\* line 71: a USB device that is not a monitor source
IsUsbSource(source) == source.bus = "usb" /\ ~source.monitor

\* line 77
IsAt2020(source) == source.maker \in {"AT2020", "Audio-Technica"}

\* lines 65-72: usb_sources, as the positions of its members in the listing
RECURSIVE UsbSourcesFrom(_, _)
UsbSourcesFrom(srcs, i) ==
    IF i > Len(srcs) THEN <<>>
    ELSE IF IsUsbSource(srcs[i]) THEN <<i>> \o UsbSourcesFrom(srcs, i + 1)
    ELSE UsbSourcesFrom(srcs, i + 1)

UsbSources(srcs) == UsbSourcesFrom(srcs, 1)

\* lines 66-78: at2020_source after the loop, assigned at every USB source
\* that is an AT2020 device
RECURSIVE At2020From(_, _, _)
At2020From(srcs, i, found) ==
    IF i > Len(srcs) THEN found
    ELSE IF IsUsbSource(srcs[i]) /\ IsAt2020(srcs[i])
         THEN At2020From(srcs, i + 1, i)
    ELSE At2020From(srcs, i + 1, found)

At2020Source(srcs) == At2020From(srcs, 1, None)

\* line 81
SourceToUnmute(srcs) ==
    IF At2020Source(srcs) # None THEN At2020Source(srcs)
    ELSE IF UsbSources(srcs) # <<>> THEN UsbSources(srcs)[1]
    ELSE None

\* a loop no verdict ends
NeverEndsLoop(v) == FALSE

\* lines 125, 134, 140: `break`; an exception leaves the loop as well
EndsLoop(v) == v \in {"unmuted", "bad_json", "unverifiable", "raised"}

\* lines 51-55: `which pactl`; an exception is caught at line 150
UnmuteWhich ==
    /\ upc = "which"
    /\ upc' = IF listing \in {"no_pactl", "raised"} THEN "returned" ELSE "list"
    /\ UNCHANGED <<listing, sources, source_to_unmute, attempt,
                   unmute_commands, verdicts>>
    /\ UNCHANGED notuvars

\* lines 58-62 and 143-149: the listing and json.loads
UnmuteList ==
    /\ upc = "list"
    /\ upc' = IF listing = "parsed" THEN "select"
              ELSE IF listing = "not_json" THEN "fallback"
              ELSE "returned"
    /\ UNCHANGED <<listing, sources, source_to_unmute, attempt,
                   unmute_commands, verdicts>>
    /\ UNCHANGED notuvars

\* lines 65-83 and 141-142
UnmuteSelect ==
    /\ upc = "select"
    /\ source_to_unmute' = SourceToUnmute(sources)
    /\ upc' = IF SourceToUnmute(sources) # None THEN "attempt" ELSE "returned"
    /\ UNCHANGED <<listing, sources, attempt, unmute_commands, verdicts>>
    /\ UNCHANGED notuvars

\* lines 92-140: one pass of `for attempt in range(max_attempts)`: the
\* unmute command is issued, then verified
UnmuteAttempt ==
    /\ upc = "attempt"
    /\ \E v \in Verdicts :
        /\ unmute_commands' = Append(unmute_commands, source_to_unmute)
        /\ verdicts' = Append(verdicts, v)
        /\ attempt' = attempt + 1
        /\ upc' = IF EndsLoop(v) \/ attempt + 1 >= max_attempts
                  THEN "returned" ELSE "attempt"
    /\ UNCHANGED <<listing, sources, source_to_unmute>>
    /\ UNCHANGED notuvars

\* _unmute_usb_microphone_fallback, lines 159-160: the first line of the
\* short listing that holds 'AT2020' or 'USB', or None
RECURSIVE FallbackFrom(_, _)
FallbackFrom(srcs, i) ==
    IF i > Len(srcs) THEN None
    ELSE IF srcs[i].short_match THEN i
    ELSE FallbackFrom(srcs, i + 1)

FallbackSource(srcs) == FallbackFrom(srcs, 1)

\* lines 149 and 155-175: the fallback unmutes the source of that line
UnmuteFallback ==
    /\ upc = "fallback"
    /\ unmute_commands' =
          IF FallbackSource(sources) = None THEN unmute_commands
          ELSE Append(unmute_commands, FallbackSource(sources))
    /\ upc' = "returned"
    /\ UNCHANGED <<listing, sources, source_to_unmute, attempt, verdicts>>
    /\ UNCHANGED notuvars

NextUnmute ==
    \/ UnmuteWhich
    \/ UnmuteList
    \/ UnmuteSelect
    \/ UnmuteAttempt
    \/ UnmuteFallback

SpecUnmute == InitUnmute /\ [][NextUnmute]_vars

\* the USB, non-monitor sources of the listing, and those among them that
\* are Audio-Technica/AT2020 devices
UsbSet == {i \in 1..Len(sources) : sources[i].bus = "usb" /\ ~sources[i].monitor}
AtSet == {i \in UsbSet : sources[i].maker # "other"}

\* the source the unmute command has to go to: an Audio-Technica/AT2020
\* source when there is one, else the first USB source, else none
Eligible ==
    IF AtSet # {} THEN AtSet
    ELSE {i \in UsbSet : \A j \in UsbSet : i <= j}

\* C22: every unmute command of a key press goes to an Audio-Technica/AT2020
\* source among the USB, non-monitor sources when there is one, wherever it
\* stands in the list; else to the first USB source; and without a USB
\* source no unmute command is issued.
C22_At2020First ==
    \A k \in 1..Len(unmute_commands) : unmute_commands[k] \in Eligible

\* The same for a key press whose JSON listing was parsed, with the source
\* selected at line 81
At2020FirstWhenParsed ==
    listing = "parsed" =>
        /\ C22_At2020First
        /\ upc \in {"attempt", "returned"} =>
              IF Eligible = {} THEN source_to_unmute = None
              ELSE source_to_unmute \in Eligible

\* C23: a key press issues the unmute command at most 2 times; a first
\* attempt verified as still muted is followed by a second one, a second
\* attempt by none; an attempt verified as unmuted, or one that cannot be
\* verified, is the last.
C23_AtMostTwoAttempts ==
    /\ Len(unmute_commands) <= 2
    /\ (verdicts = <<"muted">>) => (upc = "attempt" /\ ENABLED UnmuteAttempt)
    /\ Len(verdicts) = 2 => upc = "returned"
    /\ \A k \in 1..Len(verdicts) :
          verdicts[k] \in {"unmuted", "unverifiable", "bad_json"} =>
              (k = Len(verdicts) /\ upc = "returned")

\* C23 witness: the first attempt was verified as still muted, the second
\* as unmuted, and the routine has returned after two commands.
C23_Witness ==
    /\ verdicts = <<"muted", "unmuted">>
    /\ Len(unmute_commands) = 2
    /\ upc = "returned"

\* ------------------------------------------- the fallback configurations
\* the preference list 44100, 48000, 16000, 22050, 8000 without the first
\* candidate, in the order of the list
RemainingRates(candidate) ==
    SelectSeq(<<44100, 48000, 16000, 22050, 8000>>, LAMBDA rate : rate # candidate)

\* Once the first candidate is refused, the validations that follow are the
\* remaining preferred rates in order with the configured channel count,
\* each tried only after all the earlier ones were refused; the first one
\* accepted is returned; one more validation at most follows the last rate
FallbackOrderKept ==
    (Len(checks) >= 1 /\ checks[1] \notin supported) =>
        LET rest == RemainingRates(checks[1][1])
        IN  /\ Len(checks) <= Len(rest) + 2
            /\ \A i \in 2..Len(checks) :
                 i - 1 <= Len(rest) => checks[i] = <<rest[i - 1], 1>>
            /\ \A i \in 1..(Len(checks) - 1) : checks[i] \notin supported
            /\ (dpc \in {"returned", "opened"} /\ Len(checks) \in 2..(Len(rest) + 1)) =>
                 /\ checks[Len(checks)] \in supported
                 /\ returned_config =
                      <<"default_input", checks[Len(checks)][1], 1>>

\* the validation that follows the last preferred rate is the stereo one
\* at the rate the device reported, and it is returned when accepted
StereoAtNativeRate ==
    (Len(checks) >= 1 /\ Len(checks) = Len(RemainingRates(checks[1][1])) + 2) =>
        /\ checks[Len(checks)] = <<native_rate, 2>>
        /\ (dpc \in {"returned", "opened"} /\ <<native_rate, 2>> \in supported) =>
             returned_config = <<"default_input", native_rate, 2>>

\* The stereo validation is at the rate of the first candidate. This
\* differs from StereoAtNativeRate for a device whose rate is not in the
\* preference list: the first candidate is then 44100.
StereoAtFirstCandidate ==
    (Len(checks) >= 1 /\ Len(checks) = Len(RemainingRates(checks[1][1])) + 2) =>
        checks[Len(checks)] = <<checks[1][1], 2>>

StereoReturned ==
    /\ native_rate = 96000
    /\ dpc = "returned"
    /\ Len(checks) = 6
    /\ returned_config = <<"default_input", 96000, 2>>
\* ------------------------------------------- the content of the answer
\* the content fragments of the lines from the i-th on, up to the first
\* end marker, in the order of the lines
RECURSIVE FragmentsFrom(_, _)
FragmentsFrom(lines, i) ==
    IF i > Len(lines) \/ lines[i] = <<"done">> THEN <<>>
    ELSE (IF lines[i][1] = "content" THEN <<lines[i][2]>> ELSE <<>>)
            \o FragmentsFrom(lines, i + 1)

Fragments(lines) == FragmentsFrom(lines, 1)

\* an event before the first end marker carries a content that is no string
RECURSIVE NullBeforeDoneFrom(_, _)
NullBeforeDoneFrom(lines, i) ==
    /\ i <= Len(lines)
    /\ lines[i] # <<"done">>
    /\ lines[i] = <<"nullcontent">> \/ NullBeforeDoneFrom(lines, i + 1)

NullBeforeDone(lines) == NullBeforeDoneFrom(lines, 1)

\* C35: for a 200 answer, format_text returns the stripped concatenation,
\* in arrival order, of the content fragments of the data events received
\* before the first end marker; other lines, events that are not JSON and
\* whatever follows the end marker contribute nothing.
C35_ContentConcatenated ==
    (fpc = "returned" /\ response.connects /\ response.status_code = 200) =>
        format_result = ReturnedStr(Strip(Fragments(response.lines)))

\* the same, for the answers in which every content read is a string
ConcatenatedWhenStrings ==
    (/\ fpc = "returned"
     /\ response.connects
     /\ response.status_code = 200
     /\ ~NullBeforeDone(response.lines)) =>
        format_result = ReturnedStr(Strip(Fragments(response.lines)))

\* with a content that is no string before the end marker, None is returned
NoneWhenNullContent ==
    (/\ fpc = "returned"
     /\ response.connects
     /\ response.status_code = 200
     /\ NullBeforeDone(response.lines)) =>
        format_result = ReturnedNone
\* ------------------------------------------------- the hotkey listener
\* the Right Ctrl presses of a run
MaxPresses == 2

\* the keys pressed: Right Ctrl, the exit key of config.py (ESC), another
Keys == {"ctrl_r", "esc", "other"}

InitKeys ==
    /\ InitApp
    /\ IdleTimeout
    /\ IdleClip
    /\ IdleNorm
    /\ IdleDevice
    /\ IdleMain
    /\ IdleLock
    /\ IdleFormat
    /\ IdlePlatform
    /\ IdleFix
    /\ listing \in Listings
    /\ sources \in SourcesUpTo(MaxSources)
    /\ listing \in {"no_pactl", "failed", "raised"} => sources = <<>>
    /\ upc = "returned"
    /\ source_to_unmute = None
    /\ attempt = 0
    /\ unmute_commands = <<>>
    /\ verdicts = <<>>
    /\ listener = "none"
    /\ key = "none"
    /\ epc = "idle"
    /\ presses = 0
    /\ toggles = 0
    /\ handled = {}
    /\ cleanup_calls = 0

\* an _unmute_usb_microphone without its try block
UnmuteLetsThrough == FALSE

\* keyboard_handler.py lines 49 and 146-151: every exception raised inside
\* _unmute_usb_microphone is caught there
UnmuteCatches == TRUE

\* a subprocess call of the unmute step has raised
UnmuteRaised ==
    \/ listing = "raised"
    \/ verdicts # <<>> /\ verdicts[Len(verdicts)] = "raised"

\* VoiceTypingApp.run, voice_ptt.py line 228: keyboard_handler.start()
KeyStart ==
    /\ listener = "none"
    /\ listener' = "running"
    /\ UNCHANGED <<key, epc, presses, toggles, handled, cleanup_calls>>
    /\ UNCHANGED notevars

\* _on_press, lines 36-42: the listener hands a key to the callback, one
\* key at a time. Right Ctrl enters _unmute_usb_microphone; for any other
\* key the test of line 39 fails and the callback returns
KeyPress ==
    /\ listener = "running"
    /\ epc = "idle"
    /\ \E k \in Keys :
        /\ key' = k
        /\ IF k = "ctrl_r"
           THEN /\ presses < MaxPresses
                /\ presses' = presses + 1
                /\ epc' = "unmute"
                /\ upc' = "which"
                /\ source_to_unmute' = None
                /\ attempt' = 0
                /\ unmute_commands' = <<>>
                /\ verdicts' = <<>>
           ELSE /\ k \notin handled
                /\ epc' = "return"
                /\ UNCHANGED <<presses, upc, source_to_unmute, attempt,
                               unmute_commands, verdicts>>
    /\ UNCHANGED <<listener, toggles, handled, cleanup_calls, listing, sources>>
    /\ UNCHANGED <<appvars, svars, dvars, mvars, lvars, fvars, pvars, gvars>>

\* lines 44-45: _unmute_usb_microphone has returned and on_record_toggle
\* is called; an exception that left the unmute step would end the
\* callback before
KeyToggle ==
    /\ epc = "unmute"
    /\ upc = "returned"
    /\ toggles' = IF UnmuteRaised /\ ~UnmuteCatches THEN toggles ELSE toggles + 1
    /\ epc' = "return"
    /\ UNCHANGED <<listener, key, presses, handled, cleanup_calls>>
    /\ UNCHANGED notevars

\* the callback returns to the listener
KeyReturn ==
    /\ epc = "return"
    /\ handled' = handled \cup {key}
    /\ key' = "none"
    /\ epc' = "idle"
    /\ UNCHANGED <<listener, presses, toggles, cleanup_calls>>
    /\ UNCHANGED notevars

\* main, voice_ptt.py lines 318-320: Ctrl+C in the terminal raises
\* KeyboardInterrupt in the main thread, which waits in listener.join();
\* cleanup is called and the process ends. Taken between two keys.
KeyInterrupt ==
    /\ listener = "running"
    /\ epc = "idle"
    /\ cleanup_calls' = cleanup_calls + 1
    /\ listener' = "stopped"
    /\ UNCHANGED <<key, epc, presses, toggles, handled>>
    /\ UNCHANGED notevars

\* the steps of _unmute_usb_microphone, inside the callback
KeyUnmute == epc = "unmute" /\ NextUnmute

NextKeys ==
    \/ KeyStart
    \/ KeyPress
    \/ KeyUnmute
    \/ KeyToggle
    \/ KeyReturn
    \/ KeyInterrupt

SpecKeys == InitKeys /\ [][NextKeys]_vars

\* C36: once the callback has returned from a press of the exit key, the
\* on_exit handler (VoiceTypingApp.cleanup) has been called and the
\* listener has stopped.
C36_ExitKeyExits ==
    "esc" \in handled => (cleanup_calls > 0 /\ listener = "stopped")

\* C38: every Right Ctrl press handed to the callback has delivered one
\* toggle by the time the callback returns, and none before the unmute
\* step has ended; the unmute step always ends, whatever its commands
\* answer.
C38_OneTogglePerPress ==
    /\ toggles = IF epc = "unmute" THEN presses - 1 ELSE presses
    /\ epc = "unmute" => (upc = "returned" \/ ENABLED NextUnmute)
    /\ (epc = "unmute" /\ upc = "returned") => ENABLED KeyToggle

\* C38 witness: the second Right Ctrl press has delivered the second
\* toggle although a subprocess call of its unmute step raised.
C38_Witness ==
    /\ presses = 2
    /\ toggles = 2
    /\ epc = "return"
    /\ key = "ctrl_r"
    /\ UnmuteRaised
\* ----------------------------------------------- the AI-fix application
\* the Alt+G presses of a run
MaxTriggers == 4

InitFix ==
    /\ InitApp
    /\ IdleTimeout
    /\ IdleClip
    /\ IdleNorm
    /\ IdleDevice
    /\ IdleMain
    /\ IdleLock
    /\ IdleFormat
    /\ IdleLater
    /\ IdleKeys
    /\ IdleFix

\* a handle_fix whose finally clause leaves the flag alone
FinallyKeeps == FALSE

\* ai-fix.py lines 342-343: the finally clause clears the flag
FinallyClears == TRUE

\* KeyboardHandler._on_press, ai-fix.py lines 102-120: the listener thread
\* calls on_fix_trigger for Alt+G. The listener runs its callbacks one
\* after the other, so the next call begins when the last has returned.
FixTrigger ==
    /\ gpc = "idle"
    /\ triggers < MaxTriggers
    /\ triggers' = triggers + 1
    /\ gpc' = "check"
    /\ UNCHANGED <<processing, path, in_flight, copies, pastes, returns>>
    /\ UNCHANGED notgvars

\* lines 310-315: return when a cycle is running, else set the flag
FixCheck ==
    /\ gpc = "check"
    /\ IF processing
       THEN /\ gpc' = "idle"
            /\ returns' = returns \cup {"busy"}
            /\ UNCHANGED <<processing, in_flight>>
       ELSE /\ processing' = TRUE
            /\ in_flight' = in_flight + 1
            /\ gpc' = "capture"
            /\ UNCHANGED returns
    /\ UNCHANGED <<path, triggers, copies, pastes>>
    /\ UNCHANGED notgvars

\* line 323 and get_highlighted_text, lines 140-171: pyperclip.paste of
\* line 143 raises; or Ctrl+C is sent and the clipboard holds a selection,
\* or nothing (an exception after line 145 ends the same way, line 171)
FixCapture ==
    /\ gpc = "capture"
    /\ \/ /\ path' = "exception"
          /\ gpc' = "finally"
          /\ UNCHANGED copies
       \/ /\ copies' = copies + 1
          /\ \/ gpc' = "format" /\ UNCHANGED path
             \/ gpc' = "finally" /\ path' = "no_selection"
    /\ UNCHANGED <<processing, triggers, in_flight, pastes, returns>>
    /\ UNCHANGED notgvars

\* lines 332-338: format_text answers with a text or with None
FixFormat ==
    /\ gpc = "format"
    /\ \/ gpc' = "replace" /\ UNCHANGED path
       \/ gpc' = "finally" /\ path' = "no_answer"
    /\ UNCHANGED <<processing, triggers, in_flight, copies, pastes, returns>>
    /\ UNCHANGED notgvars

\* line 336 and replace_selection, lines 259-291: pyperclip.paste of line
\* 265 raises; or the text is pasted with Ctrl+V
FixReplace ==
    /\ gpc = "replace"
    /\ gpc' = "finally"
    /\ \/ path' = "exception" /\ UNCHANGED pastes
       \/ path' = "replaced" /\ pastes' = pastes + 1
    /\ UNCHANGED <<processing, triggers, in_flight, copies, returns>>
    /\ UNCHANGED notgvars

\* lines 340-343: the except clause prints, the finally clause clears the
\* flag, and handle_fix returns
FixFinally ==
    /\ gpc = "finally"
    /\ processing' = IF FinallyClears THEN FALSE ELSE processing
    /\ in_flight' = in_flight - 1
    /\ returns' = returns \cup {path}
    /\ path' = "none"
    /\ gpc' = "idle"
    /\ UNCHANGED <<triggers, copies, pastes>>
    /\ UNCHANGED notgvars

NextFix ==
    \/ FixTrigger
    \/ FixCheck
    \/ FixCapture
    \/ FixFormat
    \/ FixReplace
    \/ FixFinally

SpecFix == InitFix /\ [][NextFix]_vars

\* C37: at most one cycle is in flight; a call of handle_fix that finds
\* processing True returns without a Ctrl+C, a Ctrl+V or a new cycle; and
\* whenever handle_fix has returned, by whatever path, processing is False.
C37_OneCycleInFlight ==
    [][/\ in_flight' <= 1
       /\ (gpc = "check" /\ processing) =>
              (gpc' = "idle" /\ copies' = copies /\ pastes' = pastes
               /\ in_flight' = in_flight)
       /\ gpc' = "idle" => ~processing']_vars

\* C37 witness: handle_fix has returned for no selection, for a formatter
\* failure, for an exception and after a replacement, and the flag is
\* down.
C37_Witness ==
    /\ gpc = "idle"
    /\ returns = {"no_selection", "no_answer", "exception", "replaced"}
    /\ ~processing

\* handle_fix is never entered while the flag is up: the listener thread
\* is the only caller and the flag is down whenever it is free
NeverBusy == "busy" \notin returns /\ ~(gpc = "check" /\ processing)

====
